---- MODULE Spec2Model ----
(***************************************************************************)
(* Migration execution engine of migrate-ai-commerce: the token-bucket     *)
(* RateLimiter, the RetryQueue and ShopifyAPIService.batchProcessOperations *)
(* (src/src/services/shopifyAPIService.ts).                                *)
(*                                                                         *)
(* Time is Date.now() in milliseconds.  A setTimeout(d) continuation runs  *)
(* at some clock value >= the value at the call + d (timers fire late,     *)
(* never early); the clock never runs backwards.                           *)
(***************************************************************************)
EXTENDS Integers, Sequences, FiniteSets, TLC

VARIABLES
    \* RateLimiter fields and the clock
    currentCredits, lastRefill, now,
    \* per throttle() caller: "idle" (no call in flight) or "waiting"
    \* (suspended in the setTimeout of line 449), and the timer's due time
    tpc, wake,
    \* Scenario C bookkeeping: throttle() calls returned, calls that suspended
    callsDone, waited,
    \* batchProcessOperations: the operations are 1..nOps in input order;
    \* bidx is the loop's offset of the current batch; issued[o] counts the
    \* executeOperation(o) calls of the run, result[o] is NoResponse or the
    \* response that settled o; progress is the MigrationProgress object;
    \* throttles counts the throttle() calls of the run (line 76)
    nOps, batchSize, bpc, bidx, issued, result, progress, throttles,
    \* RetryQueue.queue; processRetries' position, the entry it holds, and
    \* per operation: its executeOperation calls, its 'Max retries reached'
    \* reports, and whether a retry of it succeeded
    queue, rpc, item, attempts, permFailed, succeeded,
    \* bulkImportProducts: its position, its MigrationProgress object, whether
    \* it returned through its catch block, whether a poll has seen the job
    \* unfinished; and the external bulk job: its status and error code
    bulkPc, bulkProgress, bulkThrew, sawPending, jobStatus, jobErrorCode,
    \* MigrationOrchestrator: currentPlan, the options it was created from,
    \* the state of every step, executeMigration's position, its sourceData
    \* argument, its position in the resource loop, the value it returned,
    \* what the run has sent to the API, the interval timers left running,
    \* and how many times executeMigration was called
    plan, options, steps, opc, sourceData, cur, report, hist, timers, runs,
    \* the last invocation of the onProgress callback: the step and the
    \* overall value passed, and the steps as they were at that moment
    lastCb,
    \* verifyMigrationIntegrity: its two arguments and the value it returned
    originalData, migratedData, verdict,
    \* validateAndTransformData: its sourceData argument and the value it
    \* returned
    priceData, validation,
    \* CloudAIService: the position of the one call modelled, its method and
    \* data, how the remote request ended, and how the call ended
    aiPc, aiCall, aiRemote, aiResult,
    \* the limiter and the retry queue of each of several ShopifyAPIService
    \* objects, and the object whose method ran last (0: none yet)
    services, acting

limVars   == <<currentCredits, lastRefill, now, tpc, wake>>
scenVars  == <<callsDone, waited>>
batchVars == <<nOps, batchSize, bpc, bidx, issued, result, progress, throttles>>
retryVars == <<rpc, item, attempts, permFailed, succeeded>>
bulkVars  == <<bulkPc, bulkProgress, bulkThrew, sawPending, jobStatus,
               jobErrorCode>>
orchVars  == <<plan, options, steps, opc, sourceData, cur, report, hist,
               timers, runs, lastCb>>
verVars   == <<originalData, migratedData, verdict>>
traVars   == <<priceData, validation>>
aiVars    == <<aiPc, aiCall, aiRemote, aiResult>>
instVars  == <<services, acting>>
pureVars  == <<verVars, traVars, aiVars, instVars>>
otherVars == <<bulkVars, orchVars, pureVars>>
vars      == <<limVars, scenVars, batchVars, queue, retryVars, otherVars>>

----------------------------------------------------------------------------
(* Bounds of the model *)

\* the clock is explored up to this value (ms)
MaxNow == 3000
\* number of throttle() callers that may be in flight on one RateLimiter
NumCallers == 2
\* number of sequential throttle() calls of Scenario C
ScenarioCalls == 45

\* amounts of time (ms) that may elapse in one step of the clock
AdvanceSet == {250, 500, 1000}

\* largest number of operations passed to batchProcessOperations
MaxOps == 3

\* operations of the run in which the sizes of successive batches are compared
MaxSizedOps == 4

\* records in the sourceData of one executeMigration call
MaxRecords == 2

\* executeMigration calls on one plan
MaxRuns == 2

\* records in each list passed to verifyMigrationIntegrity
MaxVerify == 2

\* characters in a source value mapped to price, and records in one
\* validateAndTransformData call
MaxPriceLen == 2

MaxPriceRecords == 2

\* rows in the data passed to a CloudAIService method
MaxRows == 2

\* ShopifyAPIService objects alive side by side
NumInstances == 2

\* throttle() and add() calls made through one of them
MaxInstCalls == 1

\* record counts sampled on either side of a strategy threshold
Margin == 2

Callers == 1..NumCallers
Ops == 1..MaxSizedOps

----------------------------------------------------------------------------
(* RateLimiter *)

bucketSize == 40
refillRate == 2

Min(a, b) == IF a < b THEN a ELSE b
Max(a, b) == IF a > b THEN a ELSE b

\* Math.floor(((now - lastRefill) / 1000) * refillRate)
CreditsToAdd(t, last) == ((t - last) * refillRate) \div 1000

\* currentCredits after refillCredits() run at clock value t
\* (faulty variant: the Math.min cap of line 467 left out)
RefilledCreditsUncapped(c, t, last) ==
    IF CreditsToAdd(t, last) > 0 THEN c + CreditsToAdd(t, last) ELSE c

RefilledCredits(c, t, last) ==
    IF CreditsToAdd(t, last) > 0
    THEN Min(bucketSize, c + CreditsToAdd(t, last))
    ELSE c

\* lastRefill after refillCredits() run at clock value t
RefilledLast(t, last) == IF CreditsToAdd(t, last) > 0 THEN t ELSE last

\* Math.ceil((1 - currentCredits) / refillRate * 1000)
WaitTime(c) == ((1 - c) * 1000 + refillRate - 1) \div refillRate

\* the test of line 447 (faulty variant first: < for <=)
MustWaitStrict(c) == c < 0

MustWait(c) == c <= 0

\* throttle() up to its return or its suspension (lines 445-449, 453)
ThrottleCall(k) ==
    /\ tpc[k] = "idle"
    /\ LET c == RefilledCredits(currentCredits, now, lastRefill) IN
       /\ lastRefill' = RefilledLast(now, lastRefill)
       /\ IF MustWait(c)
          THEN /\ currentCredits' = c
               /\ tpc' = [tpc EXCEPT ![k] = "waiting"]
               /\ wake' = [wake EXCEPT ![k] = now + WaitTime(c)]
          ELSE /\ currentCredits' = c - 1
               /\ UNCHANGED <<tpc, wake>>
    /\ UNCHANGED now

\* throttle() from the timer's continuation to its return (lines 450, 453)
ThrottleResume(k) ==
    /\ tpc[k] = "waiting"
    /\ now >= wake[k]
    /\ currentCredits' = RefilledCredits(currentCredits, now, lastRefill) - 1
    /\ lastRefill' = RefilledLast(now, lastRefill)
    /\ tpc' = [tpc EXCEPT ![k] = "idle"]
    /\ wake' = [wake EXCEPT ![k] = 0]
    /\ UNCHANGED now

\* getAvailableCredits() (lines 456-459); the value returned is currentCredits'
GetAvailableCredits ==
    /\ currentCredits' = RefilledCredits(currentCredits, now, lastRefill)
    /\ lastRefill' = RefilledLast(now, lastRefill)
    /\ UNCHANGED <<now, tpc, wake>>

\* d milliseconds pass
TimePasses(d) ==
    /\ now' = now + d
    /\ UNCHANGED <<currentCredits, lastRefill, tpc, wake>>

Tick(d) ==
    /\ now + d <= MaxNow
    /\ TimePasses(d)

\* new RateLimiter() at clock value 0 (lines 439-442)
LimInit ==
    /\ currentCredits = 40
    /\ lastRefill = 0
    /\ now = 0
    /\ tpc = [k \in Callers |-> "idle"]
    /\ wake = [k \in Callers |-> 0]

----------------------------------------------------------------------------
(* Responses of the commerce API and the errors executeOperation throws *)

\* what fetch() yields for one request: an HTTP response with its status and
\* the phrases its error text holds, or a rejection (status 0) with the
\* phrases of its message
Responses ==
    { [kind |-> "http",    status |-> 200, phrases |-> {}],
      [kind |-> "http",    status |-> 429, phrases |-> {}],
      [kind |-> "http",    status |-> 422, phrases |-> {}],
      [kind |-> "network", status |-> 0,   phrases |-> {"timeout"}] }

\* result[o] of an operation that has not settled
NoResponse == [kind |-> "none", status |-> 0, phrases |-> {}]

\* response.ok
ResponseOk(r) == r.kind = "http" /\ r.status >= 200 /\ r.status <= 299

\* the error makeRestRequest throws for a response that is not ok, or the
\* rejection of fetch: an Error with a message and no status property
\* (status is the set of the values of that property: empty)
ThrownError(r) == [status |-> {}, message |-> r.phrases]

retryableStatuses == {429, 500, 502, 503, 504}

isRetryableError(e) ==
    \/ e.status \cap retryableStatuses # {}
    \/ "rate limit" \in e.message
    \/ "timeout" \in e.message

----------------------------------------------------------------------------
(* RetryQueue *)

maxRetries == 3
retryDelay == 1000

NoItem == [operation |-> 0, retryCount |-> 0]

\* add(operation)
QueueAdd(q, o) == Append(q, [operation |-> o, retryCount |-> 0])

\* the test of line 487 (faulty variant first: > for >=)
ExhaustedLate(rc) == rc > maxRetries

Exhausted(rc) == rc >= maxRetries

\* retryDelay * Math.pow(2, retryCount)
RECURSIVE Pow2(_)
Pow2(n) == IF n <= 0 THEN 1 ELSE 2 * Pow2(n - 1)

BackoffDelay(rc) == retryDelay * Pow2(rc)

\* the iterations of the while loop that shift an exhausted entry and
\* continue: what is left of q when the loop next awaits or ends
RECURSIVE SkipExhausted(_)
SkipExhausted(q) ==
    IF q = <<>> \/ ~Exhausted(Head(q).retryCount)
    THEN q
    ELSE SkipExhausted(Tail(q))

\* the operations of the entries those iterations dropped, as a sequence
DroppedOps(q) ==
    [i \in 1..(Len(q) - Len(SkipExhausted(q))) |-> q[i].operation]

\* the catch block of lines 499-503: retryCount++ and queue.push(item)
\* (faulty variants first: unshift for push; no increment)
RequeueFront(q, it) == <<[it EXCEPT !.retryCount = @ + 1]>> \o q

RequeueSame(q, it) == Append(q, it)

Requeue(q, it) == Append(q, [it EXCEPT !.retryCount = @ + 1])

CountIn(seq, o) == Cardinality({i \in 1..Len(seq) : seq[i] = o})

\* processRetries from the loop's head, over queue q, to its next await (the
\* backoff timer of line 495) or its return
LoopFrom(q) ==
    LET rest == SkipExhausted(q) IN
    /\ permFailed' = [o \in Ops |-> permFailed[o] + CountIn(DroppedOps(q), o)]
    /\ IF rest = <<>>
       THEN /\ queue' = <<>>
            /\ item' = NoItem
            /\ rpc' = "done"
       ELSE /\ queue' = Tail(rest)
            /\ item' = Head(rest)
            /\ rpc' = "backoff"

\* a call of processRetries (line 483)
RetryCall ==
    /\ rpc \in {"idle", "done"}
    /\ LoopFrom(queue)
    /\ UNCHANGED <<attempts, succeeded>>

\* the backoff timer fires and executeOperation is called (lines 495-497)
RetryExecute ==
    /\ rpc = "backoff"
    /\ attempts' = [attempts EXCEPT ![item.operation] = @ + 1]
    /\ rpc' = "exec"
    /\ UNCHANGED <<queue, item, permFailed, succeeded>>

\* executeOperation settles with response r (lines 497-504), then the loop
RetrySettle(r) ==
    /\ rpc = "exec"
    /\ IF ResponseOk(r)
       THEN /\ succeeded' = succeeded \cup {item.operation}
            /\ LoopFrom(queue)
       ELSE /\ UNCHANGED succeeded
            /\ LoopFrom(Requeue(queue, item))
    /\ UNCHANGED attempts

RetryIdle ==
    /\ rpc = "idle"
    /\ item = NoItem
    /\ attempts = [o \in Ops |-> 0]
    /\ permFailed = [o \in Ops |-> 0]
    /\ succeeded = {}

----------------------------------------------------------------------------
(* ShopifyAPIService.batchProcessOperations *)

baseSize == 10

\* calculateOptimalBatchSize, from the value getAvailableCredits() returned
OptimalBatchSize(credits) == Max(1, (baseSize * credits) \div 40)

\* operations.slice(i, i + batchSize) (faulty variant first: one short)
BatchSliceShort(i) == {o \in 1..nOps : i < o /\ o < i + batchSize}

BatchSlice(i) == {o \in 1..nOps : i < o /\ o <= i + batchSize}

\* the batch an operation belongs to, counted from 0
BatchOf(o) == (o - 1) \div batchSize

NewProgress(n) ==
    [total |-> n, completed |-> 0, failed |-> 0, status |-> "running",
     errors |-> <<>>]

\* lines 84-90 of the catch block (faulty variant first: failed++ left out)
RecordFailureUncounted(p, o, e) ==
    [p EXCEPT !.errors = Append(@, [operation |-> o, error |-> e.message,
                                    retryCount |-> 0])]

\* (faulty variant: the push of line 90 left out)
RecordFailureUnlisted(p, o, e) == [p EXCEPT !.failed = @ + 1]

RecordFailure(p, o, e) ==
    [p EXCEPT !.failed = @ + 1,
              !.errors = Append(@, [operation |-> o, error |-> e.message,
                                    retryCount |-> 0])]

\* line 81
RecordSuccess(p) == [p EXCEPT !.completed = @ + 1]

\* line 107 (faulty variant first: 'failed' when an operation failed)
FinalStatusByFailures(p) == IF p.failed = 0 THEN "completed" ELSE "failed"

FinalStatus(p) == IF p.failed = 0 THEN "completed" ELSE "completed"

\* the call, up to the first await: createOptimalBatches sizes the batches
\* from getAvailableCredits(); with no operation the loop is skipped
BatchStart(n) ==
    /\ bpc = "start"
    /\ GetAvailableCredits
    /\ nOps' = n
    /\ batchSize' = OptimalBatchSize(currentCredits')
    /\ bidx' = 0
    /\ throttles' = 0
    /\ IF n = 0
       THEN /\ progress' = [NewProgress(n) EXCEPT
                                !.status = FinalStatus(NewProgress(n))]
            /\ bpc' = "done"
       ELSE /\ progress' = NewProgress(n)
            /\ bpc' = "throttle"
    /\ UNCHANGED <<issued, result, queue>>

\* batch.map(...): executeOperation is called for every operation of the batch
IssueBatch ==
    /\ issued' = [o \in Ops |-> IF o \in BatchSlice(bidx)
                                THEN issued[o] + 1 ELSE issued[o]]
    /\ bpc' = "inflight"

\* line 76, throttle() returning at once or suspending (faulty variant
\* first: throttle() called by every operation of the batch)
BatchThrottlePerOperation ==
    /\ bpc = "throttle"
    /\ ThrottleCall(1)
    /\ throttles' = throttles + Cardinality(BatchSlice(bidx))
    /\ IF tpc'[1] = "waiting"
       THEN bpc' = "throttling" /\ UNCHANGED issued
       ELSE IssueBatch
    /\ UNCHANGED <<nOps, batchSize, bidx, result, progress, queue>>

BatchThrottle ==
    /\ bpc = "throttle"
    /\ ThrottleCall(1)
    /\ throttles' = throttles + 1
    /\ IF tpc'[1] = "waiting"
       THEN bpc' = "throttling" /\ UNCHANGED issued
       ELSE IssueBatch
    /\ UNCHANGED <<nOps, batchSize, bidx, result, progress, queue>>

\* line 76, the suspended throttle() returning
BatchThrottleResume ==
    /\ bpc = "throttling"
    /\ ThrottleResume(1)
    /\ IssueBatch
    /\ UNCHANGED <<nOps, batchSize, bidx, result, progress, queue, throttles>>

\* one operation of the batch settles with response r (lines 79-98)
Settle(o, r) ==
    /\ bpc = "inflight"
    /\ o \in BatchSlice(bidx)
    /\ result[o] = NoResponse
    /\ result' = [result EXCEPT ![o] = r]
    /\ IF ResponseOk(r)
       THEN /\ progress' = RecordSuccess(progress)
            /\ UNCHANGED queue
       ELSE /\ progress' = RecordFailure(progress, o, ThrownError(r))
            /\ queue' = IF isRetryableError(ThrownError(r))
                        THEN QueueAdd(queue, o)
                        ELSE queue
    /\ UNCHANGED <<nOps, batchSize, bpc, bidx, issued, throttles>>

\* Promise.allSettled(batchPromises) (faulty variant first: resolves with
\* the first operation that settles)
AllSettledAny(i) == \E o \in BatchSlice(i) : result[o] # NoResponse

AllSettled(i) == \A o \in BatchSlice(i) : result[o] # NoResponse

\* lines 101-108: the batch has settled; the next batch, or the return
BatchJoin ==
    /\ bpc = "inflight"
    /\ AllSettled(bidx)
    /\ bidx' = bidx + batchSize
    /\ IF bidx' < nOps
       THEN /\ bpc' = "throttle"
            /\ UNCHANGED progress
       ELSE /\ bpc' = "done"
            /\ progress' = [progress EXCEPT !.status = FinalStatus(progress)]
    /\ UNCHANGED <<nOps, batchSize, issued, result, queue, throttles>>

BatchIdle ==
    /\ nOps = 0
    /\ batchSize = 0
    /\ bpc = "start"
    /\ bidx = 0
    /\ issued = [o \in Ops |-> 0]
    /\ result = [o \in Ops |-> NoResponse]
    /\ progress = NewProgress(0)
    /\ throttles = 0

----------------------------------------------------------------------------
(* ShopifyAPIService.bulkImportProducts and monitorBulkOperation *)

\* BulkOperation.errorCode of a failed job; "none" is a null errorCode
ErrorCodes == {"none", "ACCESS_DENIED", "INTERNAL_SERVER_ERROR"}

\* the operation of the synthetic error entry (line 223)
SyntheticOp == "CREATE product {}"

\* status.errorCode || 'Bulk operation failed'
BulkErrorText(code) == IF code = "none" THEN "Bulk operation failed" ELSE code

\* the tests of lines 215 and 219 (faulty variant first: anything but RUNNING
\* ends the loop)
IsFinalPollLoose(st) == st # "RUNNING"

IsFinalPoll(st) == st = "COMPLETED" \/ st = "FAILED"

\* lines 215-227: the progress after a poll that read status st
\* (faulty variant first: completed = total left out)
MonitorUpdateUncounted(p, st, code) ==
    IF st = "COMPLETED"
    THEN [p EXCEPT !.status = "completed"]
    ELSE IF st = "FAILED"
    THEN [p EXCEPT !.status = "failed",
                   !.errors = Append(@, [operation |-> SyntheticOp,
                                         error |-> BulkErrorText(code),
                                         retryCount |-> 0])]
    ELSE p

MonitorUpdate(p, st, code) ==
    IF st = "COMPLETED"
    THEN [p EXCEPT !.status = "completed", !.completed = p.total]
    ELSE IF st = "FAILED"
    THEN [p EXCEPT !.status = "failed",
                   !.errors = Append(@, [operation |-> SyntheticOp,
                                         error |-> BulkErrorText(code),
                                         retryCount |-> 0])]
    ELSE p

\* the call, up to the await of the submission (lines 39-50)
BulkCall(n) ==
    /\ bulkPc = "idle"
    /\ bulkProgress' = NewProgress(n)
    /\ bulkPc' = "submitting"
    /\ bulkThrew' = FALSE
    /\ sawPending' = FALSE
    /\ jobStatus' = "none"
    /\ jobErrorCode' = "none"

\* the submission answers with a job id; monitorBulkOperation starts its
\* first 5 s sleep (lines 50-54, 208-211)
BulkSubmitted ==
    /\ bulkPc = "submitting"
    /\ jobStatus' = "CREATED"
    /\ bulkPc' = "sleeping"
    /\ UNCHANGED <<bulkProgress, bulkThrew, sawPending, jobErrorCode>>

\* the submission is rejected, or its answer holds no bulkOperation: the
\* catch block (lines 56-60)
BulkSubmitThrows ==
    /\ bulkPc = "submitting"
    /\ bulkProgress' = [bulkProgress EXCEPT !.status = "failed"]
    /\ bulkThrew' = TRUE
    /\ bulkPc' = "done"
    /\ UNCHANGED <<sawPending, jobStatus, jobErrorCode>>

\* the 5 s timer fires and getBulkOperationStatus is called (lines 211-213)
BulkTimer ==
    /\ bulkPc = "sleeping"
    /\ bulkPc' = "polling"
    /\ UNCHANGED <<bulkProgress, bulkThrew, sawPending, jobStatus, jobErrorCode>>

\* the poll answers with the job's status (lines 213-230)
BulkPollResult ==
    /\ bulkPc = "polling"
    /\ bulkProgress' = IF IsFinalPoll(jobStatus)
                       THEN MonitorUpdate(bulkProgress, jobStatus, jobErrorCode)
                       ELSE bulkProgress
    /\ bulkPc' = IF IsFinalPoll(jobStatus) THEN "done" ELSE "sleeping"
    /\ sawPending' = (sawPending \/ ~IsFinalPoll(jobStatus))
    /\ UNCHANGED <<bulkThrew, jobStatus, jobErrorCode>>

\* the poll is rejected or answers without data.node: the error leaves
\* monitorBulkOperation and reaches the catch block (lines 56-60)
BulkPollThrows ==
    /\ bulkPc = "polling"
    /\ bulkProgress' = [bulkProgress EXCEPT !.status = "failed"]
    /\ bulkThrew' = TRUE
    /\ bulkPc' = "done"
    /\ UNCHANGED <<sawPending, jobStatus, jobErrorCode>>

\* the external system works on the job
JobRuns ==
    /\ jobStatus = "CREATED"
    /\ jobStatus' = "RUNNING"
    /\ UNCHANGED <<bulkPc, bulkProgress, bulkThrew, sawPending, jobErrorCode>>

JobEnds(st, code) ==
    /\ jobStatus = "RUNNING"
    /\ st \in {"COMPLETED", "FAILED", "CANCELED"}
    /\ jobStatus' = st
    /\ jobErrorCode' = IF st = "FAILED" THEN code ELSE "none"
    /\ UNCHANGED <<bulkPc, bulkProgress, bulkThrew, sawPending>>

BulkIdle ==
    /\ bulkPc = "idle"
    /\ bulkProgress = NewProgress(0)
    /\ bulkThrew = FALSE
    /\ sawPending = FALSE
    /\ jobStatus = "none"
    /\ jobErrorCode = "none"

----------------------------------------------------------------------------
(* MigrationOrchestrator: plans, steps and source records *)

StepIds == {"validation", "backup", "products", "customers", "orders",
            "verification"}

ResourceIds == {"products", "customers", "orders"}

\* the step list of createMigrationPlan, in its order (lines 44-93)
AllSteps == <<"validation", "backup", "products", "customers", "orders",
              "verification">>

Priorities == {"speed", "reliability", "balanced"}

\* the thresholds of lines 210 and 212
bulkLimit == 10000

batchLimit == 1000

\* lines 209-217 (faulty variant first: >= for > at the upper threshold)
selectOptimalStrategyInclusive(recordCount, priority) ==
    IF recordCount >= bulkLimit
    THEN (IF priority = "speed" THEN "bulk" ELSE "hybrid")
    ELSE IF recordCount > batchLimit
    THEN (IF priority = "reliability" THEN "batch" ELSE "hybrid")
    ELSE "batch"

selectOptimalStrategy(recordCount, priority) ==
    IF recordCount > bulkLimit
    THEN (IF priority = "speed" THEN "bulk" ELSE "hybrid")
    ELSE IF recordCount > batchLimit
    THEN (IF priority = "reliability" THEN "batch" ELSE "hybrid")
    ELSE "batch"

\* steps.filter(...) of lines 97-98
FilterSteps(resourceTypes) ==
    SelectSeq(AllSteps, LAMBDA id : id \in resourceTypes
                            \/ id \in {"validation", "backup", "verification"})

\* a step's progress is the number 100 * n / d, kept in lowest terms;
\* 0 / 0 is NaN
RECURSIVE GCD(_, _)
GCD(a, b) == IF b = 0 THEN a ELSE GCD(b, a % b)

NaN == [n |-> 0, d |-> 0]

Percent0 == [n |-> 0, d |-> 1]

Percent100 == [n |-> 1, d |-> 1]

\* (progress.completed / progress.total) * 100
ProgressOf(c, t) ==
    IF t = 0 THEN NaN ELSE [n |-> c \div GCD(c, t), d |-> t \div GCD(c, t)]

\* a step as createMigrationPlan builds it
NewStep == [status |-> "pending", progress |-> Percent0, errors |-> <<>>]

\* this.currentPlan before createMigrationPlan
NoPlan == [steps |-> <<>>, totalRecords |-> 0, strategy |-> "none",
           estimatedDuration |-> 0]

NoOptions == [priority |-> "none", resourceTypes |-> {}]

\* a source record after transformRecord, by what the code asks of it:
\* p, c, o are the tests of isResourceType, valid is validateShopifyRecord
RecordKinds ==
    { [kind |-> "product",  p |-> TRUE,  c |-> FALSE, o |-> FALSE, valid |-> TRUE],
      [kind |-> "customer", p |-> FALSE, c |-> TRUE,  o |-> FALSE, valid |-> TRUE],
      [kind |-> "order",    p |-> FALSE, c |-> FALSE, o |-> TRUE,  valid |-> TRUE],
      [kind |-> "product with email", p |-> TRUE, c |-> TRUE, o |-> FALSE,
       valid |-> TRUE],
      [kind |-> "unmapped", p |-> FALSE, c |-> FALSE, o |-> FALSE, valid |-> TRUE],
      [kind |-> "negative price", p |-> TRUE, c |-> FALSE, o |-> FALSE,
       valid |-> FALSE] }

DataSets == UNION {[1..n -> RecordKinds] : n \in 0..MaxRecords}

\* validateAndTransformData: validData and invalidData
ValidData(data) == SelectSeq(data, LAMBDA r : r.valid)

InvalidData(data) == SelectSeq(data, LAMBDA r : ~r.valid)

\* the test of line 127 (faulty variant first: the test left out)
ValidationPassesAlways(data) == Len(data) >= 0

ValidationPasses(data) == Len(InvalidData(data)) = 0

isResourceType(record, resourceType) ==
    CASE resourceType = "products"  -> record.p
      [] resourceType = "customers" -> record.c
      [] resourceType = "orders"    -> record.o
      [] OTHER -> FALSE

\* line 257, on the validData of line 143
ResourceData(data, resourceType) ==
    SelectSeq(ValidData(data), LAMBDA r : isResourceType(r, resourceType))

\* the values executeMigration returns (lines 158-164 and 168-178)
NoReport == [total |-> 0, completed |-> 0, failed |-> 0, status |-> "none",
             errors |-> <<>>]

CompletedReport(data) ==
    [total |-> Len(data), completed |-> Len(data), failed |-> 0,
     status |-> "completed", errors |-> <<>>]

FailedReport(data, message) ==
    [total |-> Len(data), completed |-> 0, failed |-> Len(data),
     status |-> "failed",
     errors |-> <<[operation |-> SyntheticOp, error |-> message,
                   retryCount |-> 0]>>]

\* line 116
ThrownReport == [NoReport EXCEPT !.status = "threw"]

\* what the run has sent to the external API so far: operations (in a bulk
\* job: products) sent, how many succeeded and how many did not, bulk jobs
\* submitted, bulk calls that returned 'failed', webhook set-up; and for
\* every resource stage the executor it called ("batch", "bulk", or
\* "nothing" when it called neither) and the number of its records that
\* were handed to the API, as operations or inside a submitted bulk job
NoHist == [ops |-> 0, opsOk |-> 0, opsFailed |-> 0, jobs |-> 0,
           jobsFailed |-> 0, hooks |-> FALSE,
           via |-> [id \in ResourceIds |-> "none"],
           sent |-> [id \in ResourceIds |-> 0]]

\* executeStep, lines 234-235, 239-241 and 244-246
StepRunning(s) == [s EXCEPT !.status = "running", !.progress = Percent0]

StepCompleted(s) == [s EXCEPT !.status = "completed", !.progress = Percent100]

StepFailed(s, message) ==
    [s EXCEPT !.status = "failed", !.errors = <<message>>,
              !.progress = Percent0]

\* executeResourceMigration, lines 267-268 (faulty variant first: the
\* status left as it is)
StageFinishedOpen(s) == [s EXCEPT !.progress = Percent100]

StageFinished(s) == [s EXCEPT !.status = "completed", !.progress = Percent100]

\* the step the resource loop is at, and the next resource step after
\* position i of the plan (0: none)
CurId == plan.steps[cur]

NextStage(i) ==
    LET S == {j \in (i + 1)..Len(plan.steps) : plan.steps[j] \in ResourceIds}
    IN  IF S = {} THEN 0 ELSE CHOOSE j \in S : \A k \in S : j <= k

UsesBulk == plan.strategy = "bulk"

\* sums and quotients of progress values; NaN stays NaN
Norm(n, d) == [n |-> n \div GCD(n, d), d |-> d \div GCD(n, d)]

FracAdd(a, b) ==
    IF a.d = 0 \/ b.d = 0 THEN NaN ELSE Norm(a.n * b.d + b.n * a.d, a.d * b.d)

FracDiv(a, k) == IF a.d = 0 THEN NaN ELSE Norm(a.n, a.d * k)

\* steps.reduce((total, s) => total + s.progress, 0) over the first i ids
\* of the sequence ids, the steps being in state st
RECURSIVE SumProgress(_, _, _)
SumProgress(st, ids, i) ==
    IF i = 0 THEN Percent0
    ELSE FracAdd(SumProgress(st, ids, i - 1), st[ids[i]].progress)

\* line 332 (faulty variant first: the mean over the six steps built by
\* createMigrationPlan, the filtered ones included)
MeanOfBuiltSteps(st) ==
    FracDiv(SumProgress(st, AllSteps, Len(AllSteps)), Len(AllSteps))

MeanProgress(st) ==
    FracDiv(SumProgress(st, plan.steps, Len(plan.steps)), Len(plan.steps))

\* this.onProgressUpdate(step, overallProgress) of line 333
NoCallback == [step |-> "none", overall |-> Percent0,
               at |-> [id \in StepIds |-> NewStep]]

Notify(id, st) == [step |-> id, overall |-> MeanProgress(st), at |-> st]

\* lines 148-149 and 337-344: the value the resource loop has added up after
\* the stage at position i, and the step updateOverallProgress looks for
LoopProgress(i) ==
    Norm(Cardinality({j \in 1..i : plan.steps[j] \in ResourceIds}),
         Len(plan.steps))

RunningSteps(st) ==
    {j \in 1..Len(plan.steps) : st[plan.steps[j]].status = "running"}

FirstRunning(st) ==
    CHOOSE j \in RunningSteps(st) : \A k \in RunningSteps(st) : j <= k

----------------------------------------------------------------------------
(* MigrationOrchestrator.createMigrationPlan and executeMigration *)

\* Math.ceil(a / b)
CeilDiv(a, b) == (a + b - 1) \div b

\* baseRates[strategy][resourceType], records per minute (lines 220-224)
baseRates(strategy, resourceType) ==
    CASE strategy = "bulk" ->
            (CASE resourceType = "products" -> 500
               [] resourceType = "customers" -> 1000
               [] OTHER -> 200)
      [] strategy = "batch" ->
            (CASE resourceType = "products" -> 100
               [] resourceType = "customers" -> 200
               [] OTHER -> 50)
      [] OTHER ->
            (CASE resourceType = "products" -> 300
               [] resourceType = "customers" -> 600
               [] OTHER -> 125)

\* lines 219-228
estimateMigrationTime(records, resourceType, strategy) ==
    CeilDiv(records, baseRates(strategy, resourceType)) * 60

\* the estimatedTime of the step with this id (lines 50, 58, 66, 74, 82, 90)
estimatedTime(id, count, strategy) ==
    CASE id = "validation" -> CeilDiv(count, 1000) * 60
      [] id = "backup" -> 300
      [] id = "verification" -> CeilDiv(count, 500) * 60
      [] OTHER -> estimateMigrationTime(count, id, strategy)

\* ids.reduce((total, step) => total + (step.estimatedTime || 0), 0)
RECURSIVE SumTimes(_, _, _, _)
SumTimes(ids, i, count, strategy) ==
    IF i = 0 THEN 0
    ELSE estimatedTime(ids[i], count, strategy)
            + SumTimes(ids, i - 1, count, strategy)

\* lines 31-106; estimatedDuration is reduced over the list steps of line 44
createMigrationPlan(count, priority, resourceTypes) ==
    /\ opc = "idle"
    /\ plan' = [steps |-> FilterSteps(resourceTypes),
                totalRecords |-> count,
                strategy |-> selectOptimalStrategy(count, priority),
                estimatedDuration |->
                    SumTimes(AllSteps, Len(AllSteps), count,
                             selectOptimalStrategy(count, priority))]
    /\ options' = [priority |-> priority, resourceTypes |-> resourceTypes]
    /\ steps' = [id \in StepIds |-> NewStep]
    /\ UNCHANGED <<opc, sourceData, cur, report, hist, timers, runs,
                   lastCb>>

\* lines 115-117: executeMigration without a plan
ExecuteWithoutPlan ==
    /\ opc = "idle"
    /\ plan = NoPlan
    /\ report' = ThrownReport
    /\ UNCHANGED <<plan, options, steps, opc, sourceData, cur, hist, timers, runs,
                   lastCb>>

\* lines 119-125 and 234-235: the call, up to the await inside the
\* validation step
BeginRun(data) ==
    /\ plan # NoPlan
    /\ sourceData' = data
    /\ steps' = [steps EXCEPT !["validation"] = StepRunning(@)]
    /\ opc' = "validation"
    /\ cur' = 0
    /\ report' = NoReport
    /\ hist' = NoHist
    /\ runs' = runs + 1
    /\ lastCb' = Notify("validation", steps')
    /\ UNCHANGED <<plan, options, timers>>

executeMigration(data) == opc = "idle" /\ BeginRun(data)

\* a second call on the same plan, after the first has returned
executeMigrationAgain(data) ==
    /\ opc = "returned"
    /\ runs < MaxRuns
    /\ BeginRun(data)

\* lines 125-132 and 239-248: the validation step ends; on an invalid
\* record the error reaches the catch block of lines 166-179
ValidationEnd ==
    /\ opc = "validation"
    /\ IF ValidationPasses(sourceData)
       THEN /\ steps' = [steps EXCEPT !["validation"] = StepCompleted(@)]
            /\ opc' = "toBackup"
            /\ UNCHANGED report
       ELSE /\ steps' = [steps EXCEPT !["validation"] =
                            StepFailed(@, "records failed validation")]
            /\ opc' = "returned"
            /\ report' = FailedReport(sourceData, "records failed validation")
    /\ lastCb' = Notify("validation", steps')
    /\ UNCHANGED <<plan, options, sourceData, cur, hist, timers, runs>>

\* lines 135 and 234-235
BackupBegin ==
    /\ opc = "toBackup"
    /\ steps' = [steps EXCEPT !["backup"] = StepRunning(@)]
    /\ opc' = "backup"
    /\ lastCb' = Notify("backup", steps')
    /\ UNCHANGED <<plan, options, sourceData, cur, report, hist, timers, runs>>

\* lines 136-140 and 239-241: the backup step ends and
\* setupMigrationWebhooks sends its first request
BackupEnd ==
    /\ opc = "backup"
    /\ steps' = [steps EXCEPT !["backup"] = StepCompleted(@)]
    /\ hist' = [hist EXCEPT !.hooks = TRUE]
    /\ opc' = "webhooks"
    /\ lastCb' = Notify("backup", steps')
    /\ UNCHANGED <<plan, options, sourceData, cur, report, timers, runs>>

\* line 140 returns: every createWebhook was answered
WebhooksDone ==
    /\ opc = "webhooks"
    /\ opc' = "loop"
    /\ UNCHANGED <<plan, options, steps, sourceData, cur, report, hist, timers,
                   runs, lastCb>>

\* a createWebhook request throws: the catch block of lines 166-179
WebhooksThrow ==
    /\ opc = "webhooks"
    /\ report' = FailedReport(sourceData, "webhook request failed")
    /\ opc' = "returned"
    /\ UNCHANGED <<plan, options, steps, sourceData, cur, hist, timers, runs,
                   lastCb>>

\* lines 145-147 and 252-265: the loop reaches the next resource step and
\* calls its executor, up to the executor's first await
StageBegin ==
    /\ opc = "loop"
    /\ NextStage(cur) # 0
    /\ cur' = NextStage(cur)
    /\ steps' = [steps EXCEPT ![plan.steps[cur']].status = "running"]
    /\ opc' = "stage"
    /\ LET id == plan.steps[NextStage(cur)]
           n  == Len(ResourceData(sourceData, id))
       IN  IF UsesBulk
           THEN /\ IF id = "products" THEN BulkCall(n) ELSE UNCHANGED bulkVars
                /\ UNCHANGED <<limVars, batchVars, queue>>
           ELSE /\ BatchStart(n)
                /\ UNCHANGED bulkVars
    /\ hist' = [hist EXCEPT !.via[plan.steps[NextStage(cur)]] =
                   IF ~UsesBulk THEN "batch"
                   ELSE IF plan.steps[NextStage(cur)] = "products" THEN "bulk"
                   ELSE "nothing"]
    /\ UNCHANGED <<plan, options, sourceData, report, timers, runs, lastCb>>

\* lines 294-298: batchProcessOperations has returned; the step's progress
\* is set from the returned counts
BatchMigrationReturns ==
    /\ opc = "stage"
    /\ ~UsesBulk
    /\ bpc = "done"
    /\ steps' = [steps EXCEPT ![CurId].progress =
                    ProgressOf(progress.completed, progress.total)]
    /\ hist' = [hist EXCEPT !.ops = @ + progress.total,
                            !.opsOk = @ + progress.completed,
                            !.opsFailed = @ + progress.failed,
                            !.sent[CurId] =
                                @ + Cardinality({o \in Ops : issued[o] > 0})]
    /\ nOps' = 0
    /\ batchSize' = 0
    /\ bpc' = "start"
    /\ bidx' = 0
    /\ issued' = [o \in Ops |-> 0]
    /\ result' = [o \in Ops |-> NoResponse]
    /\ progress' = NewProgress(0)
    /\ throttles' = 0
    /\ opc' = "stageDone"
    /\ lastCb' = Notify(CurId, steps')
    /\ UNCHANGED <<plan, options, sourceData, cur, report, timers, runs,
                   limVars, queue, bulkVars>>

\* lines 272-284: for products bulkImportProducts has returned and the
\* interval timer is started; for other resources nothing is done
BulkMigrationReturns ==
    /\ opc = "stage"
    /\ UsesBulk
    /\ IF CurId = "products"
       THEN /\ bulkPc = "done"
            /\ timers' = timers \cup {[step |-> CurId,
                                       completed |-> bulkProgress.completed,
                                       total |-> bulkProgress.total]}
            /\ hist' = [hist EXCEPT
                          !.jobs = @ + 1,
                          !.jobsFailed = IF bulkProgress.status = "failed"
                                         THEN @ + 1 ELSE @,
                          !.ops = @ + bulkProgress.total,
                          !.opsOk = @ + bulkProgress.completed,
                          !.opsFailed = @ + (bulkProgress.total
                                               - bulkProgress.completed),
                          !.sent[CurId] = IF jobStatus = "none" THEN @
                                          ELSE @ + bulkProgress.total]
            /\ bulkPc' = "idle"
            /\ bulkProgress' = NewProgress(0)
            /\ bulkThrew' = FALSE
            /\ sawPending' = FALSE
            /\ jobStatus' = "none"
            /\ jobErrorCode' = "none"
       ELSE UNCHANGED <<timers, hist, bulkVars>>
    /\ opc' = "stageDone"
    /\ UNCHANGED <<plan, options, steps, sourceData, cur, report, runs,
                   limVars, batchVars, queue, lastCb>>

\* lines 267-268 and 148-149
StageEnd ==
    /\ opc = "stageDone"
    /\ steps' = [steps EXCEPT ![CurId] = StageFinished(@)]
    /\ opc' = "loop"
    /\ lastCb' = IF RunningSteps(steps') # {}
                  THEN [step |-> plan.steps[FirstRunning(steps')],
                        overall |-> LoopProgress(cur),
                        at |-> steps']
                  ELSE lastCb
    /\ UNCHANGED <<plan, options, sourceData, cur, report, hist, timers, runs>>

\* lines 154 and 234-235: the loop is over
VerificationBegin ==
    /\ opc = "loop"
    /\ NextStage(cur) = 0
    /\ steps' = [steps EXCEPT !["verification"] = StepRunning(@)]
    /\ opc' = "verification"
    /\ lastCb' = Notify("verification", steps')
    /\ UNCHANGED <<plan, options, sourceData, cur, report, hist, timers, runs>>

\* lines 155-164 and 239-241
VerificationEnd ==
    /\ opc = "verification"
    /\ steps' = [steps EXCEPT !["verification"] = StepCompleted(@)]
    /\ report' = CompletedReport(sourceData)
    /\ opc' = "returned"
    /\ lastCb' = Notify("verification", steps')
    /\ UNCHANGED <<plan, options, sourceData, cur, hist, timers, runs>>

\* lines 276-283: the interval fires; the progress it captured is final, so
\* it clears itself
IntervalFires(t) ==
    /\ t \in timers
    /\ steps' = [steps EXCEPT ![t.step].progress =
                    ProgressOf(t.completed, t.total)]
    /\ timers' = timers \ {t}
    /\ lastCb' = Notify(t.step, steps')
    /\ UNCHANGED <<plan, options, opc, sourceData, cur, report, hist, runs>>

OrchIdle ==
    /\ plan = NoPlan
    /\ options = NoOptions
    /\ steps = [id \in StepIds |-> NewStep]
    /\ opc = "idle"
    /\ sourceData = <<>>
    /\ cur = 0
    /\ report = NoReport
    /\ hist = NoHist
    /\ timers = {}
    /\ runs = 0
    /\ lastCb = NoCallback

----------------------------------------------------------------------------
(* ShopifyAPIService.verifyMigrationIntegrity *)

\* the value of a property the record does not have
Undefined == "undefined"

\* records as the verifier reads them: the key fields sku, id, email and the
\* compared fields title, price
VerifyRecords ==
    { [sku |-> "A", id |-> "1", email |-> Undefined, title |-> "T",
       price |-> "10.00"],
      [sku |-> "A", id |-> "9", email |-> "x@shop", title |-> "T2",
       price |-> "12.00"],
      [sku |-> "B", id |-> "2", email |-> "y@shop", title |-> "T",
       price |-> "10.00"],
      [sku |-> Undefined, id |-> Undefined, email |-> "x@shop",
       title |-> Undefined, price |-> Undefined],
      [sku |-> Undefined, id |-> Undefined, email |-> "y@shop",
       title |-> Undefined, price |-> Undefined],
      [sku |-> Undefined, id |-> "3", email |-> Undefined,
       title |-> Undefined, price |-> Undefined] }

VerifyLists == UNION {[1..n -> VerifyRecords] : n \in 0..MaxVerify}

\* lines 385-390: === on each key field, a missing property being undefined
\* on both sides
recordsMatch(original, migrated) ==
    \/ original.sku = migrated.sku
    \/ original.id = migrated.id
    \/ original.email = migrated.email

\* migratedData.find(...): the position of the first match, 0 for none
FindMatch(original, migrated) ==
    LET S == {j \in 1..Len(migrated) : recordsMatch(original, migrated[j])}
    IN  IF S = {} THEN 0 ELSE CHOOSE j \in S : \A k \in S : j <= k

criticalFields == <<"title", "price", "sku", "email">>

FieldOf(r, f) ==
    CASE f = "title" -> r.title
      [] f = "price" -> r.price
      [] f = "sku"   -> r.sku
      [] f = "email" -> r.email

\* lines 392-405 (faulty variant first: only the title is compared)
findDataInconsistenciesTitleOnly(original, migrated) ==
    SelectSeq(<<"title">>, LAMBDA f : FieldOf(original, f) # FieldOf(migrated, f))

findDataInconsistencies(original, migrated) ==
    SelectSeq(criticalFields,
              LAMBDA f : FieldOf(original, f) # FieldOf(migrated, f))

\* the positions 1..n in order
Positions(n) == [i \in 1..n |-> i]

\* lines 171-198; records are named by their positions in the two lists
verifyMigrationIntegrity(original, migrated) ==
    LET n == Len(original)
        missing == SelectSeq(Positions(n),
                       LAMBDA i : FindMatch(original[i], migrated) = 0)
        differing == SelectSeq(Positions(n),
                       LAMBDA i :
                          /\ FindMatch(original[i], migrated) # 0
                          /\ findDataInconsistencies(original[i],
                                 migrated[FindMatch(original[i], migrated)])
                               # <<>>)
    IN  [integrity |-> ProgressOf(n - Len(missing), n),
         missingRecords |-> missing,
         inconsistencies |->
             [k \in 1..Len(differing) |->
                 [original |-> differing[k],
                  migrated |-> FindMatch(original[differing[k]], migrated),
                  issues |-> findDataInconsistencies(original[differing[k]],
                       migrated[FindMatch(original[differing[k]], migrated)])]]]

NoVerdict == [integrity |-> Percent0, missingRecords |-> <<>>,
              inconsistencies |-> <<>>, returned |-> FALSE]

\* one call of verifyMigrationIntegrity on the two lists
Verify ==
    /\ ~verdict.returned
    /\ verdict' = [integrity |->
                       verifyMigrationIntegrity(originalData, migratedData).integrity,
                   missingRecords |->
                       verifyMigrationIntegrity(originalData, migratedData).missingRecords,
                   inconsistencies |->
                       verifyMigrationIntegrity(originalData, migratedData).inconsistencies,
                   returned |-> TRUE]
    /\ UNCHANGED <<originalData, migratedData>>

VerifyIdle ==
    /\ originalData = <<>>
    /\ migratedData = <<>>
    /\ verdict = NoVerdict

----------------------------------------------------------------------------
(* ShopifyAPIService.validateAndTransformData on the field mapped to price *)

\* the characters of a source value: digits, a letter, the sign, the point
Digits == {"0", "1"}

PriceChars == Digits \cup {"a", "-", "."}

DigitVal(c) == IF c = "1" THEN 1 ELSE 0

\* a source record: the text of the field mapped to price, or no such field
\* (record[mapping.sourceField] === undefined, line 341)
NoField == [defined |-> FALSE, text |-> <<>>]

PriceRecords ==
    {NoField} \cup
    {[defined |-> TRUE, text |-> t] :
        t \in UNION {[1..n -> PriceChars] : n \in 0..MaxPriceLen}}

PriceLists == UNION {[1..n -> PriceRecords] : n \in 0..MaxPriceRecords}

\* the number of digits of s from position i on
RECURSIVE DigitRun(_, _)
DigitRun(s, i) ==
    IF i <= Len(s) /\ s[i] \in Digits THEN 1 + DigitRun(s, i + 1) ELSE 0

\* the value of the k digits of s from position i on, read as an integer
RECURSIVE DigitsValue(_, _, _)
DigitsValue(s, i, k) ==
    IF k = 0 THEN 0
    ELSE 10 * DigitsValue(s, i, k - 1) + DigitVal(s[i + k - 1])

\* the digit of s at position i, 0 when i is at or past position end
DigitAt(s, i, end) == IF i < end THEN DigitVal(s[i]) ELSE 0

\* a Number, as far as the code tells numbers apart: NaN, or a sign and a
\* magnitude in hundredths
NotANumber == [nan |-> TRUE, neg |-> FALSE, cents |-> 0]

\* parseFloat(value).toFixed(2) of line 356, and the Number the resulting
\* text converts back to in line 374: parseFloat reads the longest prefix
\* that is a decimal literal (sign, digits, point, digits) and gives NaN
\* when there is none; toFixed(2) rounds to hundredths
parseFloatToFixed(s) ==
    LET b  == IF Len(s) >= 1 /\ s[1] = "-" THEN 2 ELSE 1
        k1 == DigitRun(s, b)
        dot == b + k1 <= Len(s) /\ s[b + k1] = "."
        f  == b + k1 + 1
        k2 == IF dot THEN DigitRun(s, f) ELSE 0
        c  == 100 * DigitsValue(s, b, k1)
                + 10 * DigitAt(s, f, f + k2) + DigitAt(s, f + 1, f + k2)
                + (IF DigitAt(s, f + 2, f + k2) >= 5 THEN 1 ELSE 0)
    IN  IF k1 + k2 = 0 THEN NotANumber
        ELSE [nan |-> FALSE, neg |-> (b = 2 /\ c > 0), cents |-> c]

\* transformRecord with the one mapping to price (lines 337-350)
transformRecord(record) ==
    IF record.defined
    THEN [hasPrice |-> TRUE, price |-> parseFloatToFixed(record.text)]
    ELSE [hasPrice |-> FALSE, price |-> NotANumber]

\* validateShopifyRecord, line 374: the text toFixed returns is never empty,
\* so record.price is truthy whenever the field is there
validateShopifyRecord(record) ==
    IF record.hasPrice /\ (record.price.nan \/ record.price.neg)
    THEN <<"Price must be a positive number">>
    ELSE <<>>

\* lines 117-143; records are named by their positions in sourceData
validateAndTransformData(data) ==
    [validData |->
        SelectSeq(Positions(Len(data)),
            LAMBDA i : validateShopifyRecord(transformRecord(data[i])) = <<>>),
     invalidData |->
        SelectSeq(Positions(Len(data)),
            LAMBDA i : validateShopifyRecord(transformRecord(data[i])) # <<>>),
     transformed |-> [i \in 1..Len(data) |-> transformRecord(data[i])],
     errors |-> [i \in 1..Len(data) |->
                    validateShopifyRecord(transformRecord(data[i]))],
     returned |-> TRUE]

NoValidation == [validData |-> <<>>, invalidData |-> <<>>,
                 transformed |-> <<>>, errors |-> <<>>, returned |-> FALSE]

\* one call of validateAndTransformData
Transform ==
    /\ ~validation.returned
    /\ validation' = validateAndTransformData(priceData)
    /\ UNCHANGED priceData

TransformIdle ==
    /\ priceData = <<>>
    /\ validation = NoValidation

----------------------------------------------------------------------------
(* CloudAIService: detectSchema, suggestMappings, validateData *)

AiMethods == {"detectSchema", "suggestMappings", "validateData"}

\* a row of the uploaded data: an object with fields, or null (a JSON file
\* may hold either)
RowKinds == {"object", "null"}

AiData == UNION {[1..n -> RowKinds] : n \in 0..MaxRows}

\* how the edge function call ends before the timeout: result.success, an
\* error returned by invoke, a response without success, a rejected invoke
RemoteOutcomes == {"success", "error", "unsuccessful", "rejected"}

NoCall == [method |-> "none", data |-> <<>>, mapped |-> FALSE]

\* the statements of a try block before its await (lines 69-70, 108-116)
\* throw nothing, except row[mapping.sourceField] of line 112 on a null row
\* among the first 10, read when some mapping has a target field
ThrowsBeforeRemote(call) ==
    /\ call.method = "validateData"
    /\ call.mapped
    /\ \E i \in 1..Min(10, Len(call.data)) : call.data[i] = "null"

\* the local fallbacks, lines 130-217: what they return, or that they throw.
\* fallbackSchemaDetection reads Object.keys(data[0]) and row[field] of the
\* first 5 rows (lines 135-136); the other two do not read the rows
Fallback(call) ==
    IF /\ call.method = "detectSchema"
       /\ \E i \in 1..Min(5, Len(call.data)) : call.data[i] = "null"
    THEN "threw"
    ELSE "fallback"

\* the call, up to the await of callEdgeFunction, where the 30 s abort
\* timer is started (lines 37-41)
AiCall(method, data, mapped) ==
    /\ aiPc = "idle"
    /\ aiCall' = [method |-> method, data |-> data, mapped |-> mapped]
    /\ aiRemote' = "none"
    /\ IF ThrowsBeforeRemote(aiCall')
       THEN /\ aiPc' = "done"
            /\ aiResult' = Fallback(aiCall')
       ELSE /\ aiPc' = "remote"
            /\ aiResult' = "none"

\* invoke settles before the timer fires (lines 46-58 and the catch blocks)
AiSettle(outcome) ==
    /\ aiPc = "remote"
    /\ aiRemote' = outcome
    /\ aiResult' = IF outcome = "success" THEN "remote" ELSE Fallback(aiCall)
    /\ aiPc' = "done"
    /\ UNCHANGED aiCall

\* the timer fires first: the request is aborted, invoke settles with the
\* abort error and the catch blocks run (lines 39, 59-64)
AiTimeout ==
    /\ aiPc = "remote"
    /\ aiRemote' = "timeout"
    /\ aiResult' = Fallback(aiCall)
    /\ aiPc' = "done"
    /\ UNCHANGED aiCall

AiIdle ==
    /\ aiPc = "idle"
    /\ aiCall = NoCall
    /\ aiRemote = "none"
    /\ aiResult = "none"

----------------------------------------------------------------------------
(* Several ShopifyAPIService objects, each built by its own orchestrator *)

Instances == 1..NumInstances

\* the RateLimiter and RetryQueue a constructor builds at clock value t
\* (api lines 31-35, 439-442, 475)
NewService(t) ==
    [currentCredits |-> 40, lastRefill |-> t, waiting |-> FALSE, wake |-> 0,
     queue |-> <<>>, calls |-> 0]

\* a service whose limiter has been drained by earlier calls
DrainedService(t) == [NewService(t) EXCEPT !.currentCredits = 0]

\* this.rateLimiter and this.retryQueue are fields of the instance: a method
\* called on instance i writes the fields of i (faulty variant first: one
\* limiter and one queue shared by every instance)
WithSharedService(s, i, v) == [j \in DOMAIN s |-> v]

WithService(s, i, v) == [s EXCEPT ![i] = v]

\* rateLimiter.throttle() of instance i, to its return or its suspension
InstThrottle(i) ==
    LET s == services[i]
        c == RefilledCredits(s.currentCredits, now, s.lastRefill)
        r == [s EXCEPT !.lastRefill = RefilledLast(now, s.lastRefill)]
    IN  /\ ~s.waiting
        /\ s.calls < MaxInstCalls
        /\ services' = WithService(services, i,
              IF MustWait(c)
              THEN [r EXCEPT !.currentCredits = c, !.waiting = TRUE,
                             !.wake = now + WaitTime(c), !.calls = @ + 1]
              ELSE [r EXCEPT !.currentCredits = c - 1, !.calls = @ + 1])
        /\ acting' = i

\* the suspended throttle() of instance i returning
InstThrottleResume(i) ==
    LET s == services[i] IN
    /\ s.waiting
    /\ now >= s.wake
    /\ services' = WithService(services, i,
          [s EXCEPT !.currentCredits =
                        RefilledCredits(s.currentCredits, now, s.lastRefill) - 1,
                    !.lastRefill = RefilledLast(now, s.lastRefill),
                    !.waiting = FALSE,
                    !.wake = 0])
    /\ acting' = i

\* retryQueue.add(o) of instance i
InstAdd(i, o) ==
    /\ services[i].calls < MaxInstCalls
    /\ services' = WithService(services, i,
          [services[i] EXCEPT !.queue = QueueAdd(@, o), !.calls = @ + 1])
    /\ acting' = i

InstIdle ==
    /\ services = [i \in Instances |-> NewService(0)]
    /\ acting = 0

PureIdle == VerifyIdle /\ TransformIdle /\ AiIdle /\ InstIdle

OtherIdle == BulkIdle /\ OrchIdle /\ PureIdle

ScenIdle ==
    /\ callsDone = 0
    /\ waited = {}

----------------------------------------------------------------------------
(* One caller using the limiter: calls issued one after another *)

SeqInit ==
    LimInit /\ ScenIdle /\ BatchIdle /\ queue = <<>> /\ RetryIdle /\ OtherIdle

notLimiter == <<scenVars, batchVars, queue, retryVars, otherVars>>

SeqNext ==
    \/ ThrottleCall(1) /\ UNCHANGED notLimiter
    \/ ThrottleResume(1) /\ UNCHANGED notLimiter
    \/ GetAvailableCredits /\ UNCHANGED notLimiter
    \/ \E d \in AdvanceSet : Tick(d) /\ UNCHANGED notLimiter

SpecSeq == SeqInit /\ [][SeqNext]_vars

(* Several callers: throttle() calls in flight together *)

ConcNext ==
    \/ \E k \in Callers : ThrottleCall(k) /\ UNCHANGED notLimiter
    \/ \E k \in Callers : ThrottleResume(k) /\ UNCHANGED notLimiter
    \/ GetAvailableCredits /\ UNCHANGED notLimiter
    \/ \E d \in AdvanceSet : Tick(d) /\ UNCHANGED notLimiter

SpecConc == SeqInit /\ [][ConcNext]_vars

(* Scenario C: ScenarioCalls throttle() calls in a row by one caller; time *)
(* passes only while a call is suspended in its timer                      *)

notScenario == <<batchVars, queue, retryVars, otherVars>>

ScenCall ==
    /\ callsDone < ScenarioCalls
    /\ ThrottleCall(1)
    /\ IF tpc'[1] = "waiting"
       THEN /\ waited' = waited \cup {callsDone + 1}
            /\ UNCHANGED callsDone
       ELSE /\ callsDone' = callsDone + 1
            /\ UNCHANGED waited
    /\ UNCHANGED notScenario

ScenResume ==
    /\ ThrottleResume(1)
    /\ callsDone' = callsDone + 1
    /\ UNCHANGED <<waited, notScenario>>

ScenWait(d) ==
    /\ tpc[1] = "waiting"
    /\ now < wake[1]
    /\ TimePasses(d)
    /\ UNCHANGED <<scenVars, notScenario>>

ScenNext ==
    \/ ScenCall
    \/ ScenResume
    \/ \E d \in AdvanceSet : ScenWait(d)

SpecScen == SeqInit /\ [][ScenNext]_vars

\* the event loop runs a runnable continuation and fires a due timer
FairSpecScen == SpecScen /\ WF_vars(ScenNext)

----------------------------------------------------------------------------
(* One batchProcessOperations run on a service whose limiter holds any of   *)
(* InitCredits credits (earlier runs have called throttle()).  Only         *)
(* throttle() and createOptimalBatches read the clock, so the time the      *)
(* requests of a batch take is let pass at the batch boundary.              *)

InitCredits == {0, 2, 8, 12, 40}

BatchInit ==
    /\ currentCredits \in InitCredits
    /\ lastRefill = 0
    /\ now = 0
    /\ tpc = [k \in Callers |-> "idle"]
    /\ wake = [k \in Callers |-> 0]
    /\ ScenIdle /\ BatchIdle /\ queue = <<>> /\ RetryIdle /\ OtherIdle

BatchTick(d) ==
    /\ bpc \in {"start", "throttle", "throttling"}
    /\ Tick(d)
    /\ UNCHANGED <<scenVars, batchVars, queue, retryVars, otherVars>>

BatchNext ==
    \/ \E n \in 0..MaxOps : BatchStart(n) /\ UNCHANGED <<scenVars, retryVars, otherVars>>
    \/ BatchThrottle /\ UNCHANGED <<scenVars, retryVars, otherVars>>
    \/ BatchThrottleResume /\ UNCHANGED <<scenVars, retryVars, otherVars>>
    \/ \E o \in Ops, r \in Responses :
          Settle(o, r) /\ UNCHANGED <<limVars, scenVars, retryVars, otherVars>>
    \/ BatchJoin /\ UNCHANGED <<limVars, scenVars, retryVars, otherVars>>
    \/ \E d \in AdvanceSet : BatchTick(d)

SpecBatch == BatchInit /\ [][BatchNext]_vars

\* a run on MaxSizedOps operations, enough for two batches of more than one
\* operation
SizingNext ==
    \/ BatchStart(MaxSizedOps) /\ UNCHANGED <<scenVars, retryVars, otherVars>>
    \/ BatchThrottle /\ UNCHANGED <<scenVars, retryVars, otherVars>>
    \/ BatchThrottleResume /\ UNCHANGED <<scenVars, retryVars, otherVars>>
    \/ \E o \in Ops, r \in Responses :
          Settle(o, r) /\ UNCHANGED <<limVars, scenVars, retryVars, otherVars>>
    \/ BatchJoin /\ UNCHANGED <<limVars, scenVars, retryVars, otherVars>>
    \/ \E d \in AdvanceSet : BatchTick(d)

SpecSizing == BatchInit /\ [][SizingNext]_vars

----------------------------------------------------------------------------
(* processRetries driven on the queue of a service while the MaxOps         *)
(* operations of one batch are in flight: the queue is filled by the catch  *)
(* block of batchProcessOperations.                                         *)

RetryInit ==
    /\ currentCredits = 40 - 1
    /\ lastRefill = 0
    /\ now = 0
    /\ tpc = [k \in Callers |-> "idle"]
    /\ wake = [k \in Callers |-> 0]
    /\ ScenIdle /\ RetryIdle /\ OtherIdle
    /\ nOps = MaxOps
    /\ batchSize = baseSize
    /\ bpc = "inflight"
    /\ bidx = 0
    /\ issued = [o \in Ops |-> IF o <= MaxOps THEN 1 ELSE 0]
    /\ result = [o \in Ops |-> NoResponse]
    /\ progress = NewProgress(MaxOps)
    /\ throttles = 1
    /\ queue = <<>>

RetryNext ==
    \/ \E o \in Ops, r \in Responses :
          Settle(o, r) /\ UNCHANGED <<limVars, scenVars, retryVars, otherVars>>
    \/ RetryCall /\ UNCHANGED <<limVars, scenVars, batchVars, otherVars>>
    \/ RetryExecute /\ UNCHANGED <<limVars, scenVars, batchVars, otherVars>>
    \/ \E r \in Responses :
          RetrySettle(r) /\ UNCHANGED <<limVars, scenVars, batchVars, otherVars>>

SpecRetry == RetryInit /\ [][RetryNext]_vars

\* the backoff timer of line 495 fires, and the executeOperation awaited at
\* line 497 settles
FairSpecRetry ==
    /\ SpecRetry
    /\ WF_vars(RetryExecute /\ UNCHANGED <<limVars, scenVars, batchVars, otherVars>>)
    /\ WF_vars(\E r \in Responses :
          RetrySettle(r) /\ UNCHANGED <<limVars, scenVars, batchVars, otherVars>>)

----------------------------------------------------------------------------
(* One bulkImportProducts call on 0..MaxOps products *)

notBulk == <<limVars, scenVars, batchVars, queue, retryVars, orchVars, pureVars>>

BulkInit ==
    LimInit /\ ScenIdle /\ BatchIdle /\ queue = <<>> /\ RetryIdle /\ OtherIdle

\* the steps of the call itself
BulkSteps ==
    \/ \E n \in 0..MaxOps : BulkCall(n)
    \/ BulkSubmitted
    \/ BulkSubmitThrows
    \/ BulkTimer
    \/ BulkPollResult
    \/ BulkPollThrows

BulkNext ==
    \/ BulkSteps /\ UNCHANGED notBulk
    \/ JobRuns /\ UNCHANGED notBulk
    \/ \E st \in {"COMPLETED", "FAILED", "CANCELED"}, code \in ErrorCodes :
          JobEnds(st, code) /\ UNCHANGED notBulk

SpecBulk == BulkInit /\ [][BulkNext]_vars

\* the event loop fires the poll timer and delivers the answers of the
\* requests; nothing is assumed of the external job
FairSpecBulk == SpecBulk /\ WF_vars(BulkSteps /\ UNCHANGED notBulk)

----------------------------------------------------------------------------
(* createMigrationPlan on record counts around the two thresholds *)

CountSamples ==
    (0..Margin) \cup ((batchLimit - Margin)..(batchLimit + Margin))
                \cup ((bulkLimit - Margin)..(bulkLimit + Margin))

notOrch == <<limVars, scenVars, batchVars, queue, retryVars, bulkVars, pureVars>>

PlanInit ==
    LimInit /\ ScenIdle /\ BatchIdle /\ queue = <<>> /\ RetryIdle /\ OtherIdle

PlanNext ==
    \E count \in CountSamples, priority \in Priorities,
       resourceTypes \in SUBSET ResourceIds :
          createMigrationPlan(count, priority, resourceTypes) /\ UNCHANGED notOrch

SpecPlan == PlanInit /\ [][PlanNext]_vars

----------------------------------------------------------------------------
(* One executeMigration call on a freshly created plan *)

\* record counts and priorities that give the three strategies
OrchPlanInputs ==
    { <<0, "balanced">>, <<batchLimit + 1, "balanced">>,
      <<bulkLimit + 1, "speed">> }

OrchInit == PlanInit

\* the steps of the executors, while a resource stage awaits them; with
\* bucketSize credits and at most MaxRuns * 3 * MaxRecords operations the
\* limiter never makes a batch wait
ExecutorNext ==
    \/ BatchThrottle /\ UNCHANGED <<scenVars, retryVars, otherVars>>
    \/ \E o \in Ops, r \in Responses :
          Settle(o, r) /\ UNCHANGED <<limVars, scenVars, retryVars, otherVars>>
    \/ BatchJoin /\ UNCHANGED <<limVars, scenVars, retryVars, otherVars>>
    \/ (BulkSubmitted \/ BulkSubmitThrows \/ BulkTimer \/ BulkPollResult
          \/ BulkPollThrows \/ JobRuns) /\ UNCHANGED <<notBulk, orchVars>>
    \/ \E st \in {"COMPLETED", "FAILED", "CANCELED"}, code \in ErrorCodes :
          JobEnds(st, code) /\ UNCHANGED <<notBulk, orchVars>>

OrchSteps ==
    \/ ExecuteWithoutPlan /\ UNCHANGED notOrch
    \/ ValidationEnd /\ UNCHANGED notOrch
    \/ BackupBegin /\ UNCHANGED notOrch
    \/ BackupEnd /\ UNCHANGED notOrch
    \/ WebhooksDone /\ UNCHANGED notOrch
    \/ WebhooksThrow /\ UNCHANGED notOrch
    \/ StageBegin /\ UNCHANGED <<scenVars, retryVars, pureVars>>
    \/ BatchMigrationReturns /\ UNCHANGED <<scenVars, retryVars, pureVars>>
    \/ BulkMigrationReturns /\ UNCHANGED <<scenVars, retryVars, pureVars>>
    \/ StageEnd /\ UNCHANGED notOrch
    \/ VerificationBegin /\ UNCHANGED notOrch
    \/ VerificationEnd /\ UNCHANGED notOrch
    \/ \E t \in timers : IntervalFires(t) /\ UNCHANGED notOrch
    \/ ExecutorNext

OrchNext ==
    \/ \E in \in OrchPlanInputs, resourceTypes \in SUBSET ResourceIds :
          createMigrationPlan(in[1], in[2], resourceTypes) /\ UNCHANGED notOrch
    \/ \E data \in DataSets : executeMigration(data) /\ UNCHANGED notOrch
    \/ OrchSteps

SpecOrch == OrchInit /\ [][OrchNext]_vars

----------------------------------------------------------------------------
(* executeMigration called again on the same plan *)

RerunData == {data \in DataSets : Len(data) <= 1}

RerunNext ==
    \/ \E in \in OrchPlanInputs, resourceTypes \in SUBSET ResourceIds :
          createMigrationPlan(in[1], in[2], resourceTypes) /\ UNCHANGED notOrch
    \/ \E data \in RerunData : executeMigration(data) /\ UNCHANGED notOrch
    \/ \E data \in RerunData : executeMigrationAgain(data) /\ UNCHANGED notOrch
    \/ OrchSteps

SpecOrchRerun == OrchInit /\ [][RerunNext]_vars

----------------------------------------------------------------------------
(* verifyMigrationIntegrity on every pair of lists of up to MaxVerify records *)

notPure == <<limVars, scenVars, batchVars, queue, retryVars, bulkVars, orchVars>>

ServiceIdle ==
    LimInit /\ ScenIdle /\ BatchIdle /\ queue = <<>> /\ RetryIdle /\ BulkIdle
            /\ OrchIdle

VerifyInit ==
    /\ ServiceIdle
    /\ originalData \in VerifyLists
    /\ migratedData \in VerifyLists
    /\ verdict = NoVerdict
    /\ TransformIdle /\ AiIdle /\ InstIdle

VerifyNext == Verify /\ UNCHANGED <<notPure, traVars, aiVars, instVars>>

SpecVerify == VerifyInit /\ [][VerifyNext]_vars

----------------------------------------------------------------------------
(* validateAndTransformData on every list of up to MaxPriceRecords records *)

TransformInit ==
    /\ ServiceIdle /\ VerifyIdle /\ AiIdle /\ InstIdle
    /\ priceData \in PriceLists
    /\ validation = NoValidation

TransformNext == Transform /\ UNCHANGED <<notPure, verVars, aiVars, instVars>>

SpecTransform == TransformInit /\ [][TransformNext]_vars

----------------------------------------------------------------------------
(* One call of a CloudAIService method *)

CloudInit == ServiceIdle /\ PureIdle

CloudSteps ==
    \/ \E outcome \in RemoteOutcomes : AiSettle(outcome)
    \/ AiTimeout

CloudNext ==
    \/ \E method \in AiMethods, data \in AiData, mapped \in BOOLEAN :
          /\ mapped => method = "validateData"
          /\ AiCall(method, data, mapped)
          /\ UNCHANGED <<notPure, verVars, traVars, instVars>>
    \/ CloudSteps /\ UNCHANGED <<notPure, verVars, traVars, instVars>>

SpecCloud == CloudInit /\ [][CloudNext]_vars

\* the abort timer fires unless the request has settled
FairSpecCloud ==
    SpecCloud /\ WF_vars(CloudSteps /\ UNCHANGED <<notPure, verVars, traVars, instVars>>)

----------------------------------------------------------------------------
(* Calls made through several services side by side *)

InstInit ==
    /\ ServiceIdle
    /\ VerifyIdle /\ TransformIdle /\ AiIdle
    /\ services \in [Instances -> {NewService(0), DrainedService(0)}]
    /\ acting = 0

notInst == <<scenVars, batchVars, queue, retryVars, bulkVars, orchVars,
             verVars, traVars, aiVars>>

InstNext ==
    \/ \E i \in Instances :
          InstThrottle(i) /\ UNCHANGED <<limVars, notInst>>
    \/ \E i \in Instances :
          InstThrottleResume(i) /\ UNCHANGED <<limVars, notInst>>
    \/ \E i \in Instances, o \in 1..MaxInstCalls :
          InstAdd(i, o) /\ UNCHANGED <<limVars, notInst>>
    \/ Tick(1000) /\ UNCHANGED <<notInst, instVars>>

SpecInst == InstInit /\ [][InstNext]_vars

----------------------------------------------------------------------------
(* C1: with one caller issuing throttle() and getAvailableCredits() one    *)
(* after another and any time elapsing in between, currentCredits stays in *)
(* 0..bucketSize.                                                          *)
C1_CreditBound == 0 <= currentCredits /\ currentCredits <= bucketSize

\* the bucket was emptied, the next call waited and was served by a refill
C1_Witness == currentCredits = 0 /\ lastRefill > 0 /\ tpc[1] = "idle"

(* C2: with several throttle() calls in flight, currentCredits never       *)
(* becomes negative (every decrement acts on a post-refill count >= 1).    *)
C2_NeverNegative == currentCredits >= 0

(* C3: in Scenario C none of the first bucketSize calls suspends, call     *)
(* bucketSize + 1 suspends before it consumes a credit, and all            *)
(* ScenarioCalls calls eventually return.                                  *)
C3_ScenarioSafe ==
    /\ waited \cap (1..bucketSize) = {}
    /\ callsDone > bucketSize => (bucketSize + 1) \in waited
    /\ (callsDone = bucketSize /\ tpc[1] = "waiting") => currentCredits = 0

C3_Scenario == [] C3_ScenarioSafe /\ <>(callsDone = ScenarioCalls)

C3_Witness == callsDone = ScenarioCalls /\ (bucketSize + 1) \in waited

----------------------------------------------------------------------------
\* the operations of the entries of a queue or of an error list
OpsIn(seq) == {seq[i].operation : i \in 1..Len(seq)}

\* processRetries holds the entry of operation o (between shift and push)
InHand(o) == rpc \in {"backoff", "exec"} /\ item.operation = o

(* C4: processRetries never executes an entry whose retryCount has reached *)
(* maxRetries, so no operation is attempted more than maxRetries times,    *)
(* and an entry that failed maxRetries times is reported as permanently    *)
(* failed exactly once, when it is dropped.                                *)
C4_RetryCap ==
    /\ \A o \in Ops : attempts[o] <= maxRetries /\ permFailed[o] <= 1
    /\ rpc \in {"backoff", "exec"} => item.retryCount < maxRetries
    /\ \A o \in Ops :
          permFailed[o] = 1 => attempts[o] = maxRetries /\ o \notin succeeded
    /\ \A o \in Ops :
          (/\ attempts[o] = maxRetries
           /\ o \notin succeeded
           /\ ~InHand(o)
           /\ o \notin OpsIn(queue)) => permFailed[o] = 1

\* an operation failed its three retries and was dropped, another succeeded
C4_Witness ==
    \E o, p \in Ops :
        /\ permFailed[o] = 1 /\ attempts[o] = maxRetries
        /\ p \in succeeded
        /\ rpc = "done"

(* C5: an operation dropped from the retry queue after exhausting its      *)
(* retries has an entry in progress.errors that carries its retry count.   *)
C5_ExhaustedReported ==
    \A o \in Ops :
        permFailed[o] > 0 =>
            \E i \in 1..Len(progress.errors) :
                /\ progress.errors[i].operation = o
                /\ progress.errors[i].retryCount = maxRetries

(* C6: when batchProcessOperations returns, no operation it enqueued is    *)
(* left unprocessed in the retry queue.                                    *)
C6_QueueDrained == bpc = "done" => queue = <<>>

(* C7: completed + failed <= total in every state of a batch run, and on   *)
(* return completed + failed = total = the number of operations passed in. *)
C7_Accounting ==
    /\ progress.completed + progress.failed <= progress.total
    /\ bpc # "start" => progress.total = nOps
    /\ bpc = "done" => progress.completed + progress.failed = progress.total

\* a run of several batches returned with successes and failures
C7_Witness ==
    /\ bpc = "done"
    /\ nOps = MaxOps
    /\ batchSize < nOps
    /\ progress.completed > 0
    /\ progress.failed > 0

\* a failure the retry classification names: a status of retryableStatuses,
\* or a text that mentions a rate limit or a timeout
RetryableFailure(r) ==
    /\ ~ResponseOk(r)
    /\ \/ r.status \in retryableStatuses
       \/ "rate limit" \in r.phrases
       \/ "timeout" \in r.phrases

(* C8: when a run returns in which the failed operations K all failed with *)
(* a retryable error and the others succeeded, completed = n - |K|,        *)
(* failed = |K|, errors lists exactly K with retryCount 0 and the retry    *)
(* queue holds exactly K with retryCount 0.                                *)
C8_RetryableOutcome ==
    (/\ bpc = "done"
     /\ \A o \in 1..nOps :
           ResponseOk(result[o]) \/ RetryableFailure(result[o]))
    => LET K == {o \in 1..nOps : ~ResponseOk(result[o])} IN
       /\ progress.completed = nOps - Cardinality(K)
       /\ progress.failed = Cardinality(K)
       /\ Len(progress.errors) = Cardinality(K)
       /\ OpsIn(progress.errors) = K
       /\ \A i \in 1..Len(progress.errors) : progress.errors[i].retryCount = 0
       /\ Len(queue) = Cardinality(K)
       /\ OpsIn(queue) = K
       /\ \A i \in 1..Len(queue) : queue[i].retryCount = 0

(* C9: executeOperation is called at most once for an operation, and when  *)
(* the run returns it has been called exactly once for every operation of  *)
(* the input, whatever failed.                                             *)
C9_ExecutedOnce ==
    /\ \A o \in Ops : issued[o] <= 1
    /\ bpc = "done" =>
          \A o \in Ops : issued[o] = IF o <= nOps THEN 1 ELSE 0

\* a run of several batches returned although its first operation failed
C9_Witness ==
    /\ bpc = "done"
    /\ nOps = MaxOps
    /\ batchSize < nOps
    /\ ~ResponseOk(result[1])
    /\ \A o \in 1..nOps : issued[o] = 1

(* C10: the operations are issued batch by batch in input order, and none  *)
(* of a batch is issued before every operation of the batches before it    *)
(* has settled.                                                            *)
C10_BatchOrder ==
    \A o, p \in 1..nOps :
        /\ (p < o /\ issued[o] > 0) => issued[p] > 0
        /\ (BatchOf(p) < BatchOf(o) /\ issued[o] > 0) => result[p] # NoResponse

\* the second batch has been issued after the operations of the first batch
\* settled out of input order (errors records the order of the failures)
C10_Witness ==
    /\ \E o \in 1..nOps : BatchOf(o) = 1 /\ issued[o] > 0
    /\ Len(progress.errors) >= 2
    /\ BatchOf(progress.errors[1].operation) = 0
    /\ BatchOf(progress.errors[2].operation) = 0
    /\ progress.errors[1].operation > progress.errors[2].operation

(* C11: a batchProcessOperations call that has returned has status         *)
(* 'completed', with or without failed operations; until it returns the    *)
(* status is 'running'.                                                    *)
C11_FinalStatus ==
    /\ bpc = "done" => progress.status = "completed"
    /\ bpc # "done" => progress.status = "running"

\* a run returned with every operation failed
C11_Witness ==
    /\ bpc = "done"
    /\ nOps = MaxOps
    /\ progress.failed = nOps
    /\ Len(progress.errors) = nOps


(* C13: a progress returned by bulkImportProducts accounts for every product: completed + failed = total, also when the job FAILED or the submission threw. *)
C13_TerminalAccounting ==
    bulkPc = "done" =>
        /\ bulkProgress.status \in {"completed", "failed"}
        /\ bulkProgress.completed + bulkProgress.failed = bulkProgress.total

(* C14: a call that returned after polling a COMPLETED job has status 'completed' and completed = total; after polling a FAILED job it has status 'failed', completed = 0 and exactly one error entry, which carries the job's error code (the default text when the job has none). *)
C14_JobOutcome ==
    (bulkPc = "done" /\ ~bulkThrew) =>
        /\ jobStatus = "COMPLETED" =>
              /\ bulkProgress.status = "completed"
              /\ bulkProgress.completed = bulkProgress.total
        /\ jobStatus = "FAILED" =>
              /\ bulkProgress.status = "failed"
              /\ bulkProgress.completed = 0
              /\ Len(bulkProgress.errors) = 1
              /\ bulkProgress.errors[1].operation = SyntheticOp
              /\ jobErrorCode # "none" =>
                     bulkProgress.errors[1].error = jobErrorCode
              /\ jobErrorCode = "none" =>
                     bulkProgress.errors[1].error = "Bulk operation failed"

C14_Witness ==
    /\ bulkPc = "done" /\ ~bulkThrew /\ bulkProgress.total = MaxOps
    /\ jobStatus = "FAILED" /\ jobErrorCode = "ACCESS_DENIED"

(* C15: no poll-loop return happens while the job is neither COMPLETED nor FAILED (so a job that never gets there never lets the loop return), and once the job is COMPLETED or FAILED a call that is polling eventually returns with a terminal status. *)
C15_PollingLiveness ==
    /\ []((bulkPc = "done" /\ ~bulkThrew) => jobStatus \in {"COMPLETED", "FAILED"})
    /\ (bulkPc \in {"sleeping", "polling"} /\ jobStatus \in {"COMPLETED", "FAILED"})
          ~> (bulkPc = "done" /\ bulkProgress.status \in {"completed", "failed"})

C15_Witness ==
    /\ bulkPc = "done" /\ ~bulkThrew /\ sawPending
    /\ jobStatus = "COMPLETED" /\ bulkProgress.status = "completed"


(* C20: the strategy of a plan follows the table: bulk above 10000 records with priority speed, hybrid above 10000 otherwise; between 1001 and 10000 batch with priority reliability and hybrid otherwise; batch up to 1000 records. *)
C20_StrategyTable ==
    plan # NoPlan =>
        LET count == plan.totalRecords
            priority == options.priority
        IN  /\ (count > 10000 /\ priority = "speed") => plan.strategy = "bulk"
            /\ (count > 10000 /\ priority # "speed") => plan.strategy = "hybrid"
            /\ (1000 < count /\ count <= 10000 /\ priority = "reliability")
                  => plan.strategy = "batch"
            /\ (1000 < count /\ count <= 10000 /\ priority # "reliability")
                  => plan.strategy = "hybrid"
            /\ count <= 1000 => plan.strategy = "batch"

C20_Witness ==
    /\ plan.totalRecords = 10000 /\ options.priority = "speed"
    /\ plan.strategy = "hybrid"


(* C12: when executeMigration returns status 'completed', its failed count is the number of operations that failed in the resource stages, its completed count the number that succeeded, and completed + failed = total. *)
C12_NoSilentSuccess ==
    (opc = "returned" /\ report.status = "completed") =>
        /\ report.failed = hist.opsFailed
        /\ report.completed = hist.opsOk
        /\ report.completed + report.failed = report.total

(* C16: a step's status only moves pending -> running -> completed or failed: no step of the plan ever takes an earlier status again, and a completed or failed step keeps its status. *)
C16_StatusMonotonic ==
    [][\A id \in StepIds :
          LET Rank(st) == CASE st = "pending" -> 0
                            [] st = "running" -> 1
                            [] OTHER -> 2
          IN  /\ Rank(steps'[id].status) >= Rank(steps[id].status)
              /\ steps[id].status \in {"completed", "failed"}
                    => steps'[id].status = steps[id].status]_vars

(* C17: during executeMigration at most one step of the plan is running, and a step that is running or beyond has every earlier step of the plan completed or failed. *)
C17_Sequential ==
    LET n == Len(plan.steps)
        St(i) == steps[plan.steps[i]].status
    IN  /\ Cardinality({i \in 1..n : St(i) = "running"}) <= 1
        /\ \A i \in 1..n : St(i) # "pending" =>
              \A j \in 1..(i - 1) : St(j) \in {"completed", "failed"}

C17_Witness ==
    /\ plan.steps = AllSteps
    /\ steps["products"].status = "completed"
    /\ steps["customers"].status = "running"
    /\ steps["orders"].status = "pending"
    /\ bpc = "inflight"

(* C18: a run whose sourceData holds an invalid record never passes the validation step: it returns status 'failed' with completed = 0, the validation step is failed, every later step of the plan is still pending, and no operation, bulk job or webhook request was sent. *)
C18_ValidationAborts ==
    (opc # "idle" /\ \E i \in 1..Len(sourceData) : ~sourceData[i].valid) =>
        /\ opc \in {"validation", "returned"}
        /\ \A i \in 2..Len(plan.steps) : steps[plan.steps[i]].status = "pending"
        /\ hist.ops = 0 /\ hist.jobs = 0 /\ ~hist.hooks
        /\ bpc = "start" /\ \A o \in Ops : issued[o] = 0
        /\ bulkPc = "idle" /\ jobStatus = "none"
        /\ opc = "returned" =>
              /\ report.status = "failed"
              /\ report.completed = 0
              /\ steps["validation"].status = "failed"

C18_Witness ==
    /\ opc = "returned" /\ report.status = "failed"
    /\ Len(sourceData) = MaxRecords
    /\ sourceData[1].valid /\ ~sourceData[MaxRecords].valid
    /\ plan.strategy = "bulk" /\ plan.steps = AllSteps

(* C19: when operations or a bulk job failed in a resource stage, the run still executes every step of the plan, and the failure is on record when it returns: a step is failed or carries errors, or the report has a failed count or errors. *)
C19_FailuresRecorded ==
    (opc = "returned" /\ (hist.opsFailed > 0 \/ hist.jobsFailed > 0)) =>
        /\ \A i \in 1..Len(plan.steps) :
              steps[plan.steps[i]].status \in {"completed", "failed"}
        /\ \/ \E i \in 1..Len(plan.steps) :
                 \/ steps[plan.steps[i]].status = "failed"
                 \/ steps[plan.steps[i]].errors # <<>>
           \/ report.failed > 0
           \/ report.errors # <<>>

(* C21: a resource stage calls the bulk executor if and only if the plan's strategy is bulk, and under the strategies hybrid and batch every resource stage calls batchProcessOperations. *)
C21_DeclaredStrategy ==
    /\ \A id \in ResourceIds : hist.via[id] # "none" =>
          /\ hist.via[id] = "bulk" <=> plan.strategy = "bulk"
          /\ plan.strategy \in {"hybrid", "batch"} => hist.via[id] = "batch"
    /\ opc = "stage" =>
          /\ bulkPc # "idle" <=> plan.strategy = "bulk"
          /\ plan.strategy \in {"hybrid", "batch"} => bpc # "start"

(* C22: a resource stage that is completed has handed every valid record classified for it to the external API, as a batch operation or inside a submitted bulk job. *)
C22_StageMigrated ==
    \A i \in 1..Len(plan.steps) :
        LET id == plan.steps[i]
        IN  (id \in ResourceIds /\ steps[id].status = "completed") =>
                hist.sent[id] = Len(ResourceData(sourceData, id))

\* the denominators of the progress values of the first i steps multiplied,
\* and the sum of these values brought to that denominator
RECURSIVE DenProduct(_, _, _)
DenProduct(st, ids, i) ==
    IF i = 0 THEN 1 ELSE st[ids[i]].progress.d * DenProduct(st, ids, i - 1)

RECURSIVE NumSum(_, _, _, _)
NumSum(st, ids, i, den) ==
    IF i = 0 THEN 0
    ELSE st[ids[i]].progress.n * (den \div st[ids[i]].progress.d)
            + NumSum(st, ids, i - 1, den)

(* C23: the overall value passed to the progress callback is the arithmetic mean of the progress values that the steps of the plan have at that moment (NaN when one of them is NaN). *)
C23_OverallIsMean ==
    lastCb.step # "none" =>
        LET ids == plan.steps
            L   == Len(ids)
            den == DenProduct(lastCb.at, ids, L)
        IN  IF den = 0
            THEN lastCb.overall.d = 0
            ELSE /\ lastCb.overall.d > 0
                 /\ lastCb.overall.n * L * den
                       = lastCb.overall.d * NumSum(lastCb.at, ids, L, den)

C23_Witness ==
    /\ lastCb.step = "products"
    /\ lastCb.at["products"].progress = [n |-> 1, d |-> 2]
    /\ Len(plan.steps) = 4
    /\ lastCb.overall = [n |-> 5, d |-> 8]

(* C24: verifyMigrationIntegrity on an empty original list returns integrity 100 and no missing records, whatever the migrated list is. *)
C24_EmptyOriginal ==
    (verdict.returned /\ originalData = <<>>) =>
        /\ verdict.integrity = Percent100
        /\ verdict.missingRecords = <<>>

\* the two records have the same value, and have one, in a key field
SharesKey(original, migrated) ==
    \/ original.sku # Undefined /\ original.sku = migrated.sku
    \/ original.id # Undefined /\ original.id = migrated.id
    \/ original.email # Undefined /\ original.email = migrated.email

(* C25: an original record is kept out of missingRecords only when some migrated record has the same non-empty sku, id or email; an original with no such counterpart is reported missing. *)
C25_MatchingRule ==
    verdict.returned =>
        \A i \in 1..Len(originalData) :
            (\E k \in 1..Len(verdict.missingRecords) :
                 verdict.missingRecords[k] = i)
            <=> ~\E j \in 1..Len(migratedData) :
                     SharesKey(originalData[i], migratedData[j])

\* the originals the verifier found a counterpart for, and the entries of
\* the result that belong to original i
MatchedSet ==
    {i \in 1..Len(originalData) :
        \E j \in 1..Len(migratedData) :
            recordsMatch(originalData[i], migratedData[j])}

MissingSet ==
    {verdict.missingRecords[k] : k \in 1..Len(verdict.missingRecords)}

EntriesOf(i) ==
    {k \in 1..Len(verdict.inconsistencies) :
        verdict.inconsistencies[k].original = i}

Differs(original, migrated) ==
    \/ original.title # migrated.title
    \/ original.price # migrated.price
    \/ original.sku # migrated.sku
    \/ original.email # migrated.email

(* C26: every original is either missing or matched and never both; an inconsistency entry exists exactly for each matched original that differs from its counterpart in title, price, sku or email, one entry each; and integrity is (originalCount - missingCount) / originalCount * 100, whatever the inconsistencies. *)
C26_Partition ==
    verdict.returned =>
        LET n == Len(originalData) IN
        /\ MissingSet \cup MatchedSet = 1..n
        /\ MissingSet \cap MatchedSet = {}
        /\ Cardinality(MissingSet) = Len(verdict.missingRecords)
        /\ \A i \in 1..n :
              LET j == FindMatch(originalData[i], migratedData) IN
              IF i \in MatchedSet /\ Differs(originalData[i], migratedData[j])
              THEN /\ Cardinality(EntriesOf(i)) = 1
                   /\ \A k \in EntriesOf(i) :
                         /\ verdict.inconsistencies[k].migrated = j
                         /\ verdict.inconsistencies[k].issues # <<>>
              ELSE EntriesOf(i) = {}
        /\ n > 0 =>
              /\ verdict.integrity.d > 0
              /\ verdict.integrity.n * n
                    = (n - Len(verdict.missingRecords)) * verdict.integrity.d

C26_Witness ==
    /\ verdict.returned
    /\ Len(originalData) = 2
    /\ verdict.missingRecords = <<2>>
    /\ Len(verdict.inconsistencies) = 1
    /\ verdict.inconsistencies[1].original = 1
    /\ verdict.inconsistencies[1].issues = <<"title", "price", "email">>
    /\ verdict.integrity = [n |-> 1, d |-> 2]

\* the text is a decimal numeral from its first to its last character: an
\* optional sign, then digits with at most one point, at least one digit
IsNumeric(s) ==
    LET b == IF Len(s) >= 1 /\ s[1] = "-" THEN 2 ELSE 1
    IN  /\ \A i \in b..Len(s) : s[i] \in Digits \cup {"."}
        /\ Cardinality({i \in b..Len(s) : s[i] = "."}) <= 1
        /\ \E i \in b..Len(s) : s[i] \in Digits

InSeq(x, seq) == \E k \in 1..Len(seq) : seq[k] = x

(* C27: a record whose source value for price is not a number is not in validData; it is in invalidData with the price error, and its price is not turned into a number. *)
C27_BadPriceBlocked ==
    validation.returned =>
        \A i \in 1..Len(priceData) :
            (priceData[i].defined /\ ~IsNumeric(priceData[i].text)) =>
                /\ ~InSeq(i, validation.validData)
                /\ InSeq(i, validation.invalidData)
                /\ validation.errors[i] = <<"Price must be a positive number">>
                /\ validation.transformed[i].price.nan

----------------------------------------------------------------------------
(* C28: detectSchema, suggestMappings and validateData never propagate an
   error to their caller, and when the remote call fails, answers without
   success or times out, the call returns the result of its local fallback *)

RemoteFailed == aiRemote \in {"error", "unsuccessful", "rejected", "timeout"}

C28_AlwaysFallsBack ==
    aiPc = "done" =>
        /\ aiResult # "threw"
        /\ RemoteFailed => aiResult = "fallback"

----------------------------------------------------------------------------
\* the entries processRetries has yet to finish with, in the order it will
\* take them: the one in hand, then the queue
Pending ==
    IF rpc \in {"backoff", "exec"} THEN <<item>> \o queue ELSE queue

\* s is what is left of q once the exhausted entries at its front are dropped
LiveSuffix(s, q) ==
    \E k \in 0..Len(q) :
        /\ s = SubSeq(q, k + 1, Len(q))
        /\ \A i \in 1..k : q[i].retryCount >= maxRetries
        /\ k < Len(q) => q[k + 1].retryCount < maxRetries

\* the attempt in hand has just failed
AttemptFailed == rpc = "exec" /\ rpc' # "exec" /\ succeeded' = succeeded

AttemptSucceeded == rpc = "exec" /\ rpc' # "exec" /\ succeeded' # succeeded

(* C29: processRetries takes entries from the front of the queue in FIFO   *)
(* order: the operation attempted is the entry in hand, taken from the     *)
(* front; an entry whose attempt fails goes to the back of the queue with  *)
(* its retryCount increased by exactly 1, behind every pending entry, and  *)
(* the entries ahead of it keep their order and are taken before it.       *)
C29_FifoRequeue ==
    [][/\ attempts' # attempts =>
            /\ rpc = "backoff"
            /\ attempts' = [attempts EXCEPT ![item.operation] = @ + 1]
            /\ Pending' = Pending
       /\ AttemptFailed =>
            LiveSuffix(Pending',
                       Append(queue, [operation |-> item.operation,
                                      retryCount |-> item.retryCount + 1]))
       /\ AttemptSucceeded => LiveSuffix(Pending', queue)
       /\ (rpc \in {"idle", "done"} /\ rpc' = "backoff") =>
            LiveSuffix(Pending', queue)
      ]_vars

\* an entry that failed once waits at the back, behind an entry not yet
\* attempted, while a third is in hand
C29_Witness ==
    /\ rpc = "backoff"
    /\ item.retryCount = 0
    /\ Len(queue) = 2
    /\ queue[1].retryCount = 0
    /\ queue[2].retryCount = 1
    /\ attempts[queue[2].operation] = 1

----------------------------------------------------------------------------
\* processRetries is between its call and its return
Draining == rpc \in {"backoff", "exec"}

(* C30: whatever the operations answer, a call of processRetries returns   *)
(* with the queue empty, and no entry is executed more than maxRetries     *)
(* times.                                                                  *)
C30_DrainTerminates ==
    /\ [](\A o \in Ops : attempts[o] <= maxRetries)
    /\ Draining ~> (rpc = "done" /\ queue = <<>>)

\* every operation failed on every attempt and the call has returned
C30_Witness ==
    /\ rpc = "done"
    /\ queue = <<>>
    /\ \A o \in 1..nOps : attempts[o] = maxRetries /\ permFailed[o] = 1

----------------------------------------------------------------------------
\* the batches createOptimalBatches made of the nOps operations
NumBatches == (nOps + batchSize - 1) \div batchSize

\* the batches whose turn of the loop has begun with its throttle() call
BatchesEntered ==
    CASE bpc = "start" -> 0
      [] bpc = "throttle" -> bidx \div batchSize
      [] bpc \in {"throttling", "inflight"} -> bidx \div batchSize + 1
      [] OTHER -> NumBatches

(* C31: batchProcessOperations calls throttle() once per batch: the calls  *)
(* made so far number the batches entered, no operation of a batch is      *)
(* issued before the batch's throttle() has returned, and on return the    *)
(* calls number the batches, not the operations.                           *)
C31_ThrottlePerBatch ==
    nOps > 0 =>
        /\ throttles = BatchesEntered
        /\ bpc \in {"throttle", "throttling"} =>
              \A o \in BatchSlice(bidx) : issued[o] = 0
        /\ \A o \in 1..nOps : issued[o] > 0 => throttles > BatchOf(o)
        /\ bpc = "done" => throttles = NumBatches

\* a run of three operations in two batches has returned after two calls
C31_Witness ==
    /\ bpc = "done"
    /\ nOps = 3
    /\ batchSize = 2
    /\ throttles = 2

----------------------------------------------------------------------------
\* the operations of the run that have settled with a failure
FailedOps == {o \in 1..nOps : result[o] # NoResponse /\ ~ResponseOk(result[o])}

(* C32: a failed operation is in the retry queue if and only if its        *)
(* failure has a status of 429, 500, 502, 503 or 504 or a text with 'rate  *)
(* limit' or 'timeout'; every failed operation is counted in failed and    *)
(* listed in errors; no operation that succeeded is in the queue.          *)
C32_EnqueueByClass ==
    /\ \A o \in FailedOps :
          /\ o \in OpsIn(queue) <=> RetryableFailure(result[o])
          /\ o \in OpsIn(progress.errors)
    /\ progress.failed = Cardinality(FailedOps)
    /\ OpsIn(queue) \subseteq FailedOps

----------------------------------------------------------------------------
\* max(1, floor(10 * credits / 40))
SizeFor(credits) == IF (10 * credits) \div 40 >= 1 THEN (10 * credits) \div 40 ELSE 1

\* the operations in the batch that starts at offset i
BatchLen(i) == Cardinality(BatchSlice(i))

\* what getAvailableCredits() would return now
AvailableNow == RefilledCredits(currentCredits, now, lastRefill)

(* C33: every batch holds max(1, floor(10 * credits / 40)) operations (or  *)
(* the operations that are left, if fewer), where credits is what the      *)
(* limiter has available when the batch before it has finished, or at the  *)
(* call for the first batch; the size is 10 at a full bucket and never     *)
(* below 1.                                                                *)
C33_AdaptiveSize ==
    [][/\ (bpc = "start" /\ nOps' > 0) =>
            /\ batchSize' = SizeFor(AvailableNow)
            /\ batchSize' >= 1
            /\ AvailableNow = bucketSize => batchSize' = 10
       /\ (bpc = "inflight" /\ bpc' = "throttle") =>
            BatchLen(bidx') = Min(nOps - bidx', SizeFor(AvailableNow))
      ]_vars

----------------------------------------------------------------------------
\* a progress value that is a number from 0 to 100
InRange(f) == f.d > 0 /\ 0 <= f.n /\ f.n <= f.d

(* C34: every progress value stored in a step of the plan, and every value *)
(* handed to the progress callback, is a number between 0 and 100, also    *)
(* for a resource stage with no matching record.                           *)
C34_ProgressRange ==
    /\ \A id \in StepIds : InRange(steps[id].progress)
    /\ lastCb.step # "none" =>
          /\ InRange(lastCb.at[lastCb.step].progress)
          /\ InRange(lastCb.overall)

----------------------------------------------------------------------------
(* C35: each service owns its limiter and its retry queue: a throttle() or *)
(* an add() made through one service leaves the credits, the refill time   *)
(* and the queue of every other service as they were.                      *)
C35_InstancesApart ==
    [][\A j \in Instances :
          j # acting' => services'[j] = services[j]]_vars

\* one service has spent a credit and has an empty queue while another,
\* built at the same time, has queued an entry and kept its full bucket
C35_Witness ==
    \E i, j \in Instances :
        /\ services[i].currentCredits = 39
        /\ services[i].queue = <<>>
        /\ services[j].currentCredits = 40
        /\ Len(services[j].queue) = 1

----------------------------------------------------------------------------
\* the entries of progress.errors that name operation o
ErrorEntries(o) ==
    Cardinality({i \in 1..Len(progress.errors) : progress.errors[i].operation = o})

(* C36: in every state of batchProcessOperations, while operations are in  *)
(* flight and on return, progress.errors is as long as progress.failed     *)
(* says, and holds one entry for each operation that failed and none for   *)
(* any other.                                                              *)
C36_ErrorsMatchFailed ==
    /\ Len(progress.errors) = progress.failed
    /\ \A o \in Ops : ErrorEntries(o) = IF o \in FailedOps THEN 1 ELSE 0

\* two operations of a batch have failed while a third is still in flight
C36_Witness ==
    /\ bpc = "inflight"
    /\ progress.failed = 2
    /\ Len(progress.errors) = 2
    /\ \E o \in BatchSlice(bidx) : result[o] = NoResponse

----------------------------------------------------------------------------
\* resource step id has been set to COMPLETED with progress 100
CompletedAtFull(id) ==
    steps[id].status = "completed" /\ steps[id].progress = Percent100

(* C37: once a resource step is COMPLETED with progress 100, no later      *)
(* event of the run, the interval timer of the bulk path included, gives   *)
(* the step another progress value or calls the progress callback for it   *)
(* with another value.                                                     *)
C37_CompletedKeepsProgress ==
    [][\A id \in ResourceIds :
          (CompletedAtFull(id) /\ plan' = plan /\ runs' = runs) =>
              /\ steps'[id].progress = Percent100
              /\ (lastCb' # lastCb /\ lastCb'.step = id) =>
                    lastCb'.at[id].progress = Percent100
      ]_vars

----------------------------------------------------------------------------
\* the resource stages of the run that have turned record r into an
\* operation: a stage that has submitted operations made one of every valid
\* record its filter accepts
StagesOf(r) ==
    {id \in ResourceIds : hist.sent[id] > 0 /\ r.valid /\ isResourceType(r, id)}

(* C38: during one executeMigration no valid record is turned into an      *)
(* operation by more than one of the products, customers and orders        *)
(* stages, and the stages together submit no more operations than there    *)
(* are valid records.                                                      *)
C38_OneStagePerRecord ==
    /\ \A k \in 1..Len(sourceData) : Cardinality(StagesOf(sourceData[k])) <= 1
    /\ hist.sent["products"] + hist.sent["customers"] + hist.sent["orders"]
          <= Len(ValidData(sourceData))

----------------------------------------------------------------------------
\* ids lists its members in the order of AllSteps, each once
InPlanOrder(ids) ==
    \A i, j \in 1..Len(ids) :
        i < j => \E a, b \in 1..Len(AllSteps) :
                    a < b /\ AllSteps[a] = ids[i] /\ AllSteps[b] = ids[j]

(* C39: a plan holds validation, backup and verification and exactly the   *)
(* requested ones of products, customers and orders, in the fixed order,   *)
(* and its estimatedDuration is the sum of the estimatedTime of the steps  *)
(* that are in the plan.                                                   *)
C39_PlanDuration ==
    plan # NoPlan =>
        /\ {plan.steps[i] : i \in 1..Len(plan.steps)} =
              {"validation", "backup", "verification"}
                  \cup (options.resourceTypes \cap ResourceIds)
        /\ InPlanOrder(plan.steps)
        /\ plan.estimatedDuration =
              SumTimes(plan.steps, Len(plan.steps), plan.totalRecords,
                       plan.strategy)

====
